---- MODULE Spec2Model ----
(***************************************************************************)
(* Command execution engine of the custom-command bot: trigger matching,   *)
(* per-(user, command) rate limiting, sandboxed execution and temp files.  *)
(*                                                                         *)
(* Strings are sequences of one-character strings, so that startsWith,     *)
(* includes, toLowerCase and length are computed character by character.   *)
(***************************************************************************)
EXTENDS Integers, Sequences, FiniteSets, TLC

VARIABLES
    \* ---- src/unnamed/part_006: bot process with the messageCreate handler
    now,            \* Date.now() of the bot process, in ms
    rateLimit,      \* const rateLimit = new Map(): key -> last-use time
    redisPrefix,    \* Redis key prefix:<guild> (<<>> when not set)
    redisCommands,  \* Redis hash commands:<guild>, in hgetall order
    pc,             \* per handler invocation: where it is suspended
    msg,            \* per handler invocation: the message being handled
    received,       \* number of messageCreate events delivered so far
    limit,          \* number of messageCreate events of the behaviour
    log,            \* history: one entry per handler run that finished
    \* ---- src/index.js lines 396-452: the messageCreate handler
    ix,             \* the invocation: suspension point, message, loop position
    \* ---- src/commands.js: handleMessage / executeCommand
    cm,             \* per invocation: suspension point, message, matched command
    cooldowns,      \* store behind isOnCooldown / setCooldown: key -> expiry
    cmLog,          \* history: one entry per executeCommand that returned
    \* ---- src/sandbox.js: executeCode
    sb,             \* the invocation: suspension point, input, result
    disk,           \* the temp files of the invocation that exist
    \* ---- src/index.js lines 1569-1602: the messageCreate handler
    lw,             \* the invocation: suspension point, message, commands run
    \* ---- src/unnamed/part_001: executeCode
    ex,             \* per invocation: suspension point, input, code run, result
    tempFiles,      \* temp.py and temp.go: the text each holds ("" when absent)
    \* ---- src/bot.js: runCommand and addLog
    bt,             \* the invocation of the handler: suspension point, command
    liveLogs,       \* let liveLogs = []
    history,        \* every entry addLog ever pushed, in push order
    \* ---- src/bot.js: the db binding runCommand gives to scripts
    userdata,       \* Redis hashes userdata:<guild>: hash -> field -> stored text
    dbLast,         \* the last call a script made through db: guild, op, key, result
    \* ---- unnamed/part_006, POST /api/test-command
    tc,             \* POST /api/test-command requests: position, temp file, responses
    tcFiles,        \* temp files that exist in __dirname
    \* ---- bot.js / unnamed/part_006, POST /api/save-command
    sv,             \* POST /api/save-command requests: position, count read, command
    stored,         \* ids (fields) of the hash commands:<guildId>
    \* ---- index.js, sessions
    clock,          \* Date.now(), in ticks
    sessions,       \* Redis keys session:<sessionId>: stored session and end of its TTL
    ses,            \* validateSession calls: position, id, session read, result
    loggedOut,      \* session ids for which POST /api/logout has completed
    \* ---- killswitch.js
    globalEnabled,  \* killswitch.js: let globalEnabled
    ksKey,          \* Redis key global:enabled
    ksQueue,        \* Redis commands of killswitch.js sent and not yet answered, oldest first
    ksDisabled,     \* disableGlobally has been called
    ksSeen,         \* what the last isEnabled() call returned
    \* ---- bot.js, getPrefix and POST /api/settings/:guildId
    prefixCache,    \* bot.js: const prefixCache = new Map()
    pfxRedis,       \* Redis keys prefix:<guildId>
    pfxQueue,       \* Redis commands of getPrefix and settings saves sent and not yet answered, oldest first
    pfxSaved,       \* per guild, the prefix of the last settings save that completed
    pfxReturned     \* what the last getPrefix call that ended returned

vars006 == <<now, rateLimit, redisPrefix, redisCommands, pc, msg, received, limit, log>>
varsIdx == <<ix>>
varsCmd == <<cm, cooldowns, cmLog>>
varsSbx == <<sb, disk>>
varsLow == <<lw>>
varsExe == <<ex, tempFiles>>
varsBot == <<bt, liveLogs, history>>
varsDb == <<userdata, dbLast>>
varsTst == <<tc, tcFiles>>
varsSav == <<sv, stored>>
varsSes == <<clock, sessions, ses, loggedOut>>
varsKil == <<globalEnabled, ksKey, ksQueue, ksDisabled, ksSeen>>
varsPfx == <<prefixCache, pfxRedis, pfxQueue, pfxSaved, pfxReturned>>
vars    == <<vars006, varsIdx, varsCmd, varsSbx, varsLow, varsExe, varsBot, varsDb, varsTst, varsSav, varsSes, varsKil, varsPfx>>

\* What the steps of one program leave alone: the state of the others.
Not006 == <<varsIdx, varsCmd, varsSbx, varsLow, varsExe, varsBot, varsDb, varsTst, varsSav, varsSes, varsKil, varsPfx>>
NotIdx == <<vars006, varsCmd, varsSbx, varsLow, varsExe, varsBot, varsDb, varsTst, varsSav, varsSes, varsKil, varsPfx>>
NotCmd == <<vars006, varsIdx, varsSbx, varsLow, varsExe, varsBot, varsDb, varsTst, varsSav, varsSes, varsKil, varsPfx>>
NotSbx == <<vars006, varsIdx, varsCmd, varsLow, varsExe, varsBot, varsDb, varsTst, varsSav, varsSes, varsKil, varsPfx>>
NotLow == <<vars006, varsIdx, varsCmd, varsSbx, varsExe, varsBot, varsDb, varsTst, varsSav, varsSes, varsKil, varsPfx>>
NotExe == <<vars006, varsIdx, varsCmd, varsSbx, varsLow, varsBot, varsDb, varsTst, varsSav, varsSes, varsKil, varsPfx>>
NotBot == <<vars006, varsIdx, varsCmd, varsSbx, varsLow, varsExe, varsDb, varsTst, varsSav, varsSes, varsKil, varsPfx>>
NotDb == <<vars006, varsIdx, varsCmd, varsSbx, varsLow, varsExe, varsBot, varsTst, varsSav, varsSes, varsKil, varsPfx>>
NotTst == <<vars006, varsIdx, varsCmd, varsSbx, varsLow, varsExe, varsBot, varsDb, varsSav, varsSes, varsKil, varsPfx>>
NotSav == <<vars006, varsIdx, varsCmd, varsSbx, varsLow, varsExe, varsBot, varsDb, varsTst, varsSes, varsKil, varsPfx>>
NotSes == <<vars006, varsIdx, varsCmd, varsSbx, varsLow, varsExe, varsBot, varsDb, varsTst, varsSav, varsKil, varsPfx>>
NotKil == <<vars006, varsIdx, varsCmd, varsSbx, varsLow, varsExe, varsBot, varsDb, varsTst, varsSav, varsSes, varsPfx>>
NotPfx == <<vars006, varsIdx, varsCmd, varsSbx, varsLow, varsExe, varsBot, varsDb, varsTst, varsSav, varsSes, varsKil>>

----------------------------------------------------------------------------
(* String helpers (String.prototype.startsWith).                           *)

StartsWith(s, p) == Len(p) <= Len(s) /\ SubSeq(s, 1, Len(p)) = p

S_bang    == <<"!">>
S_ping    == <<"p", "i", "n", "g">>
S_bping   == <<"!", "p", "i", "n", "g">>
S_qping   == <<"?", "p", "i", "n", "g">>
S_help    == <<"h", "e", "l", "p">>
S_help_me == <<"h", "e", "l", "p", " ", "m", "e">>
S_sp_help == <<" ", "h", "e", "l", "p", " ">>

----------------------------------------------------------------------------
(* Bounds of the model.                                                    *)

MaxMsgs    == 2       \* events delivered to handlers that run concurrently
MaxSeqMsgs == 3       \* events delivered to handlers that run one at a time

Handlers  == {1, 2}           \* handler invocations in flight at once
\* Values of Date.now() at which the handlers run: the first one, then
\* 500, 2000 and 2100 ms later.
Times     == {1000, 1500, 3000, 3100}
StartTime == CHOOSE t \in Times : \A u \in Times : t <= u
Authors   == {"u1", "u2"}
Messages  == {S_bping, S_help, S_help_me}

----------------------------------------------------------------------------
(* Commands as stored in Redis (JSON.stringify(command)).  cooldown is     *)
(* <<>> when the field is absent and <<n>> when it holds the number n.     *)
(* code is the behaviour of the stored script when vm.run executes it.     *)

Cmd(id, type, trigger, lang, code, cooldown) ==
    [json |-> "ok", id |-> id, type |-> type, trigger |-> trigger,
     lang |-> lang, code |-> code, cooldown |-> cooldown]

BadJson == [json |-> "bad"]   \* an entry JSON.parse throws on

\* save-command stores the command object as posted, with every field it
\* has: a command posted with a roleRestriction list keeps it.
WithRoleRestriction(command, roles) == command @@ [roleRestriction |-> roles]

C_ping  == Cmd("ping",  "Command (prefix)", S_ping, "JavaScript", "string", <<2000>>)
C_pzero == Cmd("pzero", "Command (prefix)", S_ping, "JavaScript", "throws", <<0>>)
C_help  == Cmd("help",  "Exact Match",      S_help, "Python",     "string", <<500>>)
C_hgo   == Cmd("hgo",   "Starts with",      S_help, "Go",         "string", <<>>)
C_hjs   == WithRoleRestriction(
               Cmd("hjs", "Starts with",      S_help, "JavaScript", "other",  <<500>>),
               <<"mod">>)
C_rx    == Cmd("rx",    "Regex",            S_help, "JavaScript", "string", <<500>>)

Registries ==
    { <<>>, <<C_ping>>, <<C_pzero, C_ping>>, <<C_help, C_hjs>>,
      <<BadJson, C_hgo>>, <<C_rx, C_hjs, C_ping>> }

PrefixChoices == {<<>>}

----------------------------------------------------------------------------
(* src/unnamed/part_006                                                    *)

DefaultCooldown == 2000

\* command.cooldown || 2000
CooldownOrDefault(c) == IF c = <<>> \/ c[1] = 0 THEN DefaultCooldown ELSE c[1]

\* await redis.get('prefix:' + guildId) || '!'
PrefixOrDefault(p) == IF p = <<>> THEN S_bang ELSE p

\* userId + ':' + cmdId.  userId is a snowflake (digits only), so the first
\* ':' of the key ends it and the key determines the pair.
RateKey(userId, cmdId) == <<userId, cmdId>>

\* Mutant of checkRateLimit: an allowed call does not store `now`.
checkRateLimit_NoStamp(rl, userId, cmdId, cooldown, t) ==
    LET key      == RateKey(userId, cmdId)
        rl1      == IF key \in DOMAIN rl THEN rl ELSE rl @@ (key :> 0)
        lastUsed == rl1[key]
    IN  [ok |-> ~(lastUsed > 0 /\ t - lastUsed < cooldown), rl |-> rl1]

\* Mutant of checkRateLimit: `now` is stored before the comparison, so a
\* denied call moves the last-use time too.
checkRateLimit_StampOnDeny(rl, userId, cmdId, cooldown, t) ==
    LET key      == RateKey(userId, cmdId)
        rl1      == IF key \in DOMAIN rl THEN rl ELSE rl @@ (key :> 0)
        lastUsed == rl1[key]
    IN  [ok |-> ~(lastUsed > 0 /\ t - lastUsed < cooldown),
         rl |-> [rl1 EXCEPT ![key] = t]]

\* function checkRateLimit(userId, cmdId, cooldown): the result and the map
\* the call leaves behind.
checkRateLimit(rl, userId, cmdId, cooldown, t) ==
    LET key      == RateKey(userId, cmdId)
        rl1      == IF key \in DOMAIN rl THEN rl ELSE rl @@ (key :> 0)
        lastUsed == rl1[key]
    IN  IF lastUsed > 0 /\ t - lastUsed < cooldown
        THEN [ok |-> FALSE, rl |-> rl1]
        ELSE [ok |-> TRUE,  rl |-> [rl1 EXCEPT ![key] = t]]

\* Mutant of Matches: 'Exact Match' compares with startsWith.
Matches_ExactAsPrefix(command, content, prefix) ==
    IF command.type = "Command (prefix)"
    THEN StartsWith(content, prefix \o command.trigger)
    ELSE IF command.type \in {"Exact Match", "Starts with"}
    THEN StartsWith(content, command.trigger)
    ELSE FALSE

\* the if / else if chain that sets `matches`
Matches(command, content, prefix) ==
    IF command.type = "Command (prefix)"
    THEN StartsWith(content, prefix \o command.trigger)
    ELSE IF command.type = "Exact Match"
    THEN content = command.trigger
    ELSE IF command.type = "Starts with"
    THEN StartsWith(content, command.trigger)
    ELSE FALSE

\* Mutant of ScanFrom: an entry that does not parse ends the loop.
RECURSIVE ScanFrom_StopAtBad(_, _, _, _)
ScanFrom_StopAtBad(cmds, i, content, prefix) ==
    IF i > Len(cmds) THEN 0
    ELSE IF cmds[i].json # "ok" THEN 0
    ELSE IF Matches(cmds[i], content, prefix) THEN i
    ELSE ScanFrom_StopAtBad(cmds, i + 1, content, prefix)

\* Mutant of ScanFrom: the loop does not stop at the first match, the last
\* matching entry is the one that fires.
ScanFrom_Last(cmds, i, content, prefix) ==
    LET S == { j \in i..Len(cmds) :
                 cmds[j].json = "ok" /\ Matches(cmds[j], content, prefix) }
    IN  IF S = {} THEN 0 ELSE CHOOSE j \in S : \A m \in S : m <= j

\* The for loop over Object.values(commands): the index of the entry at
\* which the loop ends (return or break), 0 when it runs to the end.  An
\* entry that does not parse is caught and the loop goes on.
RECURSIVE ScanFrom(_, _, _, _)
ScanFrom(cmds, i, content, prefix) ==
    IF i > Len(cmds) THEN 0
    ELSE IF cmds[i].json = "ok" /\ Matches(cmds[i], content, prefix) THEN i
    ELSE ScanFrom(cmds, i + 1, content, prefix)

StoredLastUse(rl, key) == IF key \in DOMAIN rl THEN rl[key] ELSE 0

\* What vm.run(command.code) and the code after it reply.
RepliesOfRun(code) ==
    IF code = "string" THEN <<"result">>
    ELSE IF code = "throws" THEN <<"Command execution error">>
    ELSE <<>>

Idle == [author |-> "", content |-> <<>>, prefix |-> <<>>, ord |-> 0]

Start006 ==
    /\ now = StartTime
    /\ rateLimit = <<>>
    /\ redisPrefix \in PrefixChoices
    /\ redisCommands \in Registries
    /\ msg = [h \in Handlers |-> Idle]
    /\ received = 0
    /\ log = <<>>

\* Handler invocations overlap: a message may arrive while another is handled.
Init006 ==
    /\ Start006
    /\ pc = [h \in Handlers |-> "idle"]
    /\ limit = MaxMsgs

\* Each message arrives after the handler of the one before has returned.
InitSeq ==
    /\ Start006
    /\ pc = [h \in Handlers |-> IF h = 1 THEN "idle" ELSE "off"]
    /\ limit = MaxSeqMsgs

\* Date.now() advances.
Tick ==
    /\ \E t \in Times : /\ t > now
                         /\ \A u \in Times : u > now => t <= u
                         /\ now' = t
    /\ UNCHANGED <<rateLimit, redisPrefix, redisCommands, pc, msg, received, limit, log>>
    /\ UNCHANGED Not006

\* A message of a bot, or outside a guild: the handler returns at once.
ReceiveIgnored(h) ==
    /\ pc[h] = "idle"
    /\ received < limit
    /\ received' = received + 1
    /\ UNCHANGED <<now, rateLimit, redisPrefix, redisCommands, pc, msg, limit, log>>
    /\ UNCHANGED Not006

\* messageCreate of a user in a guild: up to the first await (redis.get).
Receive(h) ==
    /\ pc[h] = "idle"
    /\ \A g \in Handlers : g < h => pc[g] # "idle"
    /\ received < limit
    /\ \E a \in Authors, c \in Messages :
          msg' = [msg EXCEPT ![h] = [author |-> a, content |-> c, prefix |-> <<>>,
                                     ord |-> received + 1]]
    /\ pc' = [pc EXCEPT ![h] = "awaitPrefix"]
    /\ received' = received + 1
    /\ UNCHANGED <<now, rateLimit, redisPrefix, redisCommands, limit, log>>
    /\ UNCHANGED Not006

\* History of one handler run that reached the loop.  ord: the position of
\* its message among the events delivered; k: index of the entry the loop
\* ended at (0: none); arg: the cooldown passed to checkRateLimit; sets: the
\* rateLimit.set(key, now) calls made; before / after: the last-use time
\* stored for the key; execs: vm.run calls; replies: message.reply calls.
NoMatchEntry(h) ==
    [ord |-> msg[h].ord, author |-> msg[h].author, content |-> msg[h].content,
     prefix |-> msg[h].prefix, t |-> now, k |-> 0, cmd |-> "", cooldown |-> <<>>,
     lang |-> "", arg |-> 0, passed |-> FALSE, sets |-> 0, before |-> 0,
     after |-> 0, execs |-> <<>>, replies |-> <<>>]

MatchEntry(h, k, command, r, execs, replies) ==
    [ord |-> msg[h].ord, author |-> msg[h].author, content |-> msg[h].content,
     prefix |-> msg[h].prefix, t |-> now, k |-> k, cmd |-> command.id,
     cooldown |-> command.cooldown, lang |-> command.lang,
     arg |-> CooldownOrDefault(command.cooldown), passed |-> r.ok,
     sets |-> IF r.ok THEN 1 ELSE 0,
     before |-> StoredLastUse(rateLimit, RateKey(msg[h].author, command.id)),
     after |-> StoredLastUse(r.rl, RateKey(msg[h].author, command.id)),
     execs |-> execs, replies |-> replies]

Finish(h, entry) ==
    /\ log' = Append(log, entry)
    /\ pc' = [pc EXCEPT ![h] = "idle"]
    /\ msg' = [msg EXCEPT ![h] = Idle]

\* redis.get resolves; the handler calls redis.hgetall and is suspended again.
GotPrefix(h) ==
    /\ pc[h] = "awaitPrefix"
    /\ msg' = [msg EXCEPT ![h].prefix = PrefixOrDefault(redisPrefix)]
    /\ pc' = [pc EXCEPT ![h] = "awaitCommands"]
    /\ UNCHANGED <<now, rateLimit, redisPrefix, redisCommands, received, limit, log>>
    /\ UNCHANGED Not006

\* redis.get or redis.hgetall rejects: the outer catch logs and returns.
RedisFails(h) ==
    /\ pc[h] \in {"awaitPrefix", "awaitCommands"}
    /\ pc' = [pc EXCEPT ![h] = "idle"]
    /\ msg' = [msg EXCEPT ![h] = Idle]
    /\ UNCHANGED <<now, rateLimit, redisPrefix, redisCommands, received, limit, log>>
    /\ UNCHANGED Not006

\* redis.hgetall resolves; the whole loop runs without an await.
GotCommands(h) ==
    /\ pc[h] = "awaitCommands"
    /\ LET cmds == redisCommands
           k    == ScanFrom(cmds, 1, msg[h].content, msg[h].prefix)
       IN  IF k = 0
           THEN /\ Finish(h, NoMatchEntry(h))
                /\ UNCHANGED rateLimit
           ELSE LET command == cmds[k]
                    r   == checkRateLimit(rateLimit, msg[h].author, command.id,
                                          CooldownOrDefault(command.cooldown), now)
                    ran == r.ok /\ command.lang = "JavaScript"
                IN  /\ rateLimit' = r.rl
                    /\ Finish(h, MatchEntry(h, k, command, r,
                          IF ran THEN <<command.id>> ELSE <<>>,
                          IF ~r.ok THEN <<"Please wait">>
                          ELSE IF ran THEN RepliesOfRun(command.code) ELSE <<>>))
    /\ UNCHANGED <<now, redisPrefix, redisCommands, received, limit>>
    /\ UNCHANGED Not006

Next006 ==
    \/ Tick
    \/ \E h \in Handlers : ReceiveIgnored(h)
    \/ \E h \in Handlers : Receive(h)
    \/ \E h \in Handlers : GotPrefix(h)
    \/ \E h \in Handlers : RedisFails(h)
    \/ \E h \in Handlers : GotCommands(h)

----------------------------------------------------------------------------
(* src/index.js lines 396-452: the same loop, without a rate limit and     *)
(* with `await message.reply(...)` inside the inner try and its catch.     *)

CmdIdx(id, type, trigger, language, code) ==
    [json |-> "ok", id |-> id, type |-> type, trigger |-> trigger,
     language |-> language, code |-> code]

I_hs == CmdIdx("hs", "Starts with",      S_help, "javascript", "string")
I_he == CmdIdx("he", "Exact Match",      S_help, "javascript", "throws")
I_ho == CmdIdx("ho", "Starts with",      S_help, "javascript", "other")
I_hp == CmdIdx("hp", "Starts with",      S_help, "python",     "string")
I_pp == CmdIdx("pp", "Command (prefix)", S_ping, "javascript", "string")

IdxRegistries ==
    { <<>>, <<I_hs>>, <<I_hs, I_he>>, <<I_he, I_hs>>, <<BadJson, I_ho, I_hs>>,
      <<I_hp, I_hs>>, <<I_pp, I_he, I_hs>> }

IdxMessages == {S_bping, S_qping, S_help, S_help_me}

IxIdle == [pc |-> "idle", content |-> <<>>, prefix |-> <<>>, cmds |-> <<>>,
           i |-> 0, execs |-> <<>>, replies |-> <<>>]

IdleIdx == ix = IxIdle

\* The loop from entry i up to its next await, or to its end: the entry at
\* which it stops (ScanFrom), whether vm.run is called there, and where the
\* handler is suspended.
IdxRunFrom(r, i) ==
    LET k == ScanFrom(r.cmds, i, r.content, r.prefix)
    IN  IF k = 0 THEN [r EXCEPT !.pc = "done", !.i = Len(r.cmds) + 1]
        ELSE IF r.cmds[k].language # "javascript"
        THEN [r EXCEPT !.pc = "done", !.i = k]
        ELSE LET ran == [r EXCEPT !.i = k, !.execs = Append(@, r.cmds[k].id)]
             IN  IF r.cmds[k].code = "string" THEN [ran EXCEPT !.pc = "awaitReply"]
                 ELSE IF r.cmds[k].code = "throws"
                 THEN [ran EXCEPT !.pc = "awaitErrorReply"]
                 ELSE [ran EXCEPT !.pc = "done"]

\* messageCreate of a user in a guild: up to await redis.get.
IdxReceive ==
    /\ ix.pc = "idle"
    /\ \E c \in IdxMessages : ix' = [IxIdle EXCEPT !.pc = "awaitPrefix", !.content = c]
    /\ UNCHANGED NotIdx

IdxGotPrefix ==
    /\ ix.pc = "awaitPrefix"
    /\ ix' = [ix EXCEPT !.pc = "awaitCommands", !.prefix = PrefixOrDefault(redisPrefix)]
    /\ UNCHANGED NotIdx

\* redis.get or redis.hgetall rejects: the outer catch.
IdxRedisFails ==
    /\ ix.pc \in {"awaitPrefix", "awaitCommands"}
    /\ ix' = [ix EXCEPT !.pc = "done"]
    /\ UNCHANGED NotIdx

\* redis.hgetall resolves and the loop starts.
IdxGotCommands ==
    /\ ix.pc = "awaitCommands"
    /\ ix' = IdxRunFrom([ix EXCEPT !.cmds = redisCommands], 1)
    /\ UNCHANGED NotIdx

\* await message.reply(result) resolves: break.
IdxReplySent ==
    /\ ix.pc = "awaitReply"
    /\ ix' = [ix EXCEPT !.pc = "done", !.replies = Append(@, "result")]
    /\ UNCHANGED NotIdx

\* await message.reply(result) rejects: the inner catch replies the error text.
IdxReplyRejected ==
    /\ ix.pc = "awaitReply"
    /\ ix' = [ix EXCEPT !.pc = "awaitErrorReply"]
    /\ UNCHANGED NotIdx

\* await message.reply('Error executing command') resolves: break.
IdxErrorReplySent ==
    /\ ix.pc = "awaitErrorReply"
    /\ ix' = [ix EXCEPT !.pc = "done", !.replies = Append(@, "Error executing command")]
    /\ UNCHANGED NotIdx

\* await message.reply('Error executing command') rejects inside the inner
\* catch: the rejection reaches catch (cmdError), which logs it; the break is
\* skipped and the for loop goes on with the next entry.
IdxErrorReplyRejected ==
    /\ ix.pc = "awaitErrorReply"
    /\ ix' = IdxRunFrom(ix, ix.i + 1)
    /\ UNCHANGED NotIdx

NextIdx ==
    \/ IdxReceive
    \/ IdxGotPrefix
    \/ IdxRedisFails
    \/ IdxGotCommands
    \/ IdxReplySent
    \/ IdxReplyRejected
    \/ IdxErrorReplySent
    \/ IdxErrorReplyRejected

----------------------------------------------------------------------------
(* src/commands.js: handleMessage and executeCommand.  isOnCooldown and     *)
(* setCooldown belong to ./safety, which is not among the sources: they are *)
(* modelled as a store of expiry times per (command id, author id).         *)

CooldownSeconds == 5

CmdTimes == {1000, 3000, 6000, 6100}

CmdMessages == {S_help, S_sp_help, S_bping}

X_h  == WithRoleRestriction(
            [json |-> "ok", id |-> "h",  trigger |-> S_help, code |-> "string"],
            <<"mod">>)
X_hb == [json |-> "ok", id |-> "hb", trigger |-> S_help, code |-> "blocked"]
X_p  == [json |-> "ok", id |-> "p",  trigger |-> S_bang, code |-> "undefined"]

CmdRegistries == { <<>>, <<X_h>>, <<X_hb, X_h>>, <<X_p, X_hb>>, <<X_h, BadJson>>,
                   <<BadJson, X_h>> }

IsSpace(c) == c = " "

\* String.prototype.trim
RECURSIVE TrimStart(_)
TrimStart(s) == IF s # <<>> /\ IsSpace(Head(s)) THEN TrimStart(Tail(s)) ELSE s

RECURSIVE TrimEnd(_)
TrimEnd(s) ==
    IF s # <<>> /\ IsSpace(s[Len(s)]) THEN TrimEnd(SubSeq(s, 1, Len(s) - 1)) ELSE s

Trim(s) == TrimEnd(TrimStart(s))

\* The for-in loop of handleMessage: the index of the first entry whose
\* trigger starts the content, 0 when there is none, -1 when JSON.parse
\* throws before one is found (nothing catches it).
RECURSIVE CmdScanFrom(_, _, _)
CmdScanFrom(cmds, i, content) ==
    IF i > Len(cmds) THEN 0
    ELSE IF cmds[i].json # "ok" THEN -1
    ELSE IF StartsWith(content, cmds[i].trigger) THEN i
    ELSE CmdScanFrom(cmds, i + 1, content)

CooldownKey(cmdId, authorId) == <<cmdId, authorId>>

\* isOnCooldown(cmd.id, author.id)
isOnCooldown(store, cmdId, authorId, t) ==
    /\ CooldownKey(cmdId, authorId) \in DOMAIN store
    /\ t < store[CooldownKey(cmdId, authorId)]

\* setCooldown(cmd.id, author.id, seconds)
setCooldown(store, cmdId, authorId, seconds, t) ==
    LET key == CooldownKey(cmdId, authorId)
    IN  [k \in DOMAIN store \cup {key} |->
            IF k = key THEN t + seconds * 1000 ELSE store[k]]

ExpiryOf(store, cmdId, authorId) ==
    IF CooldownKey(cmdId, authorId) \in DOMAIN store
    THEN store[CooldownKey(cmdId, authorId)] ELSE 0

CmIdle == [pc |-> "idle", author |-> "", content |-> <<>>, cmd |-> "",
           code |-> "", checkedAt |-> 0, expiryBefore |-> 0]

IdleCmd ==
    /\ cm = [h \in Handlers |-> CmIdle]
    /\ cooldowns = <<>>
    /\ cmLog = <<>>

CmdTick ==
    /\ \E t \in CmdTimes : /\ t > now
                            /\ \A u \in CmdTimes : u > now => t <= u
                            /\ now' = t
    /\ UNCHANGED <<rateLimit, redisPrefix, redisCommands, pc, msg, received, limit, log>>
    /\ UNCHANGED Not006

\* handleMessage(message): up to await getCommands.
CmdReceive(h) ==
    /\ cm[h].pc = "idle"
    /\ \A g \in Handlers : g < h => cm[g].pc # "idle"
    /\ Len(cmLog) + Cardinality({g \in Handlers : cm[g].pc # "idle"}) < limit
    /\ \E a \in Authors, c \in CmdMessages :
          cm' = [cm EXCEPT ![h] = [CmIdle EXCEPT !.pc = "awaitCommands",
                                                 !.author = a, !.content = c]]
    /\ UNCHANGED <<cooldowns, cmLog>>
    /\ UNCHANGED NotCmd

CmdFinish(h, outcome, reached, replies) ==
    /\ cmLog' = Append(cmLog,
          [author |-> cm[h].author, cmd |-> cm[h].cmd, outcome |-> outcome,
           checkedAt |-> cm[h].checkedAt, execs |-> IF reached THEN 1 ELSE 0,
           replies |-> replies, expiryBefore |-> cm[h].expiryBefore,
           expiryAfter |-> ExpiryOf(cooldowns, cm[h].cmd, cm[h].author)])
    /\ cm' = [cm EXCEPT ![h] = CmIdle]

\* getCommands resolves and the loop runs: it returns at the first match
\* with executeCommand(cmd, message), which calls isOnCooldown.
CmdGotCommands(h) ==
    /\ cm[h].pc = "awaitCommands"
    /\ LET k == CmdScanFrom(redisCommands, 1, Trim(cm[h].content))
       IN  IF k > 0
           THEN /\ cm' = [cm EXCEPT ![h].pc = "awaitIsOnCooldown",
                                    ![h].cmd = redisCommands[k].id,
                                    ![h].code = redisCommands[k].code]
                /\ UNCHANGED cmLog
           ELSE CmdFinish(h, IF k = 0 THEN "noMatch" ELSE "parseError", FALSE, <<>>)
    /\ UNCHANGED cooldowns
    /\ UNCHANGED NotCmd

\* getCommands rejects: so does handleMessage.
CmdRedisFails(h) ==
    /\ cm[h].pc = "awaitCommands"
    /\ CmdFinish(h, "redisError", FALSE, <<>>)
    /\ UNCHANGED cooldowns
    /\ UNCHANGED NotCmd

\* await isOnCooldown(...) resolves.  On cooldown: reply and return.
\* Otherwise executeCommand calls setCooldown.
CmdCooldownChecked(h) ==
    /\ cm[h].pc = "awaitIsOnCooldown"
    /\ IF isOnCooldown(cooldowns, cm[h].cmd, cm[h].author, now)
       THEN CmdFinish(h, "onCooldown", FALSE, <<"Command on cooldown">>)
       ELSE /\ cm' = [cm EXCEPT ![h].pc = "awaitSetCooldown",
                                ![h].checkedAt = now,
                                ![h].expiryBefore =
                                    ExpiryOf(cooldowns, cm[h].cmd, cm[h].author)]
            /\ UNCHANGED cmLog
    /\ UNCHANGED cooldowns
    /\ UNCHANGED NotCmd

\* await setCooldown(cmd.id, author.id, 5) resolves; runSandboxed is called.
CmdCooldownSet(h) ==
    /\ cm[h].pc = "awaitSetCooldown"
    /\ cooldowns' = setCooldown(cooldowns, cm[h].cmd, cm[h].author, CooldownSeconds, now)
    /\ cm' = [cm EXCEPT ![h].pc = "awaitSandbox"]
    /\ UNCHANGED cmLog
    /\ UNCHANGED NotCmd

\* What executeCommand replies for the value runSandboxed resolves with.
RepliesOfSandbox(code) ==
    IF code = "string" THEN <<"result">>
    ELSE IF code = "blocked" THEN <<"Sandbox execution blocked">>
    ELSE <<>>

\* await runSandboxed(...) resolves: with the script's value, or with the
\* 'Sandbox execution blocked' text of its catch branch.
CmdSandboxDone(h) ==
    /\ cm[h].pc = "awaitSandbox"
    /\ CmdFinish(h, IF cm[h].code = "blocked" THEN "blocked" ELSE "ran", TRUE,
                 RepliesOfSandbox(cm[h].code))
    /\ UNCHANGED cooldowns
    /\ UNCHANGED NotCmd

NextCmd ==
    \/ CmdTick
    \/ \E h \in Handlers : CmdReceive(h)
    \/ \E h \in Handlers : CmdGotCommands(h)
    \/ \E h \in Handlers : CmdRedisFails(h)
    \/ \E h \in Handlers : CmdCooldownChecked(h)
    \/ \E h \in Handlers : CmdCooldownSet(h)
    \/ \E h \in Handlers : CmdSandboxDone(h)

----------------------------------------------------------------------------
(* src/sandbox.js: validateCode and executeCode.                           *)
(*                                                                         *)
(* A code is a text followed by `pad` filler characters, so that texts     *)
(* longer than the size limit can be written down: [body, pad] stands for  *)
(* body followed by pad times Filler.                                      *)

LowerLetters == <<"a", "b", "c", "d", "e", "f", "g", "h", "i", "j", "k", "l", "m",
                  "n", "o", "p", "q", "r", "s", "t", "u", "v", "w", "x", "y", "z">>
UpperLetters == <<"A", "B", "C", "D", "E", "F", "G", "H", "I", "J", "K", "L", "M",
                  "N", "O", "P", "Q", "R", "S", "T", "U", "V", "W", "X", "Y", "Z">>

\* String.prototype.toLowerCase on one character, and on a text
LowerChar(c) ==
    IF \E i \in 1..26 : UpperLetters[i] = c
    THEN LowerLetters[CHOOSE i \in 1..26 : UpperLetters[i] = c]
    ELSE c

toLowerCase(s) == [i \in 1..Len(s) |-> LowerChar(s[i])]

\* String.prototype.includes
includes(s, p) ==
    \E i \in 0..(Len(s) - Len(p)) : \A k \in 1..Len(p) : s[i + k] = p[k]

Filler == ";"

Fill(n) == [i \in 1..n |-> Filler]

Min(a, b) == IF a <= b THEN a ELSE b

\* code.length
CodeLength(code) == Len(code.body) + code.pad

\* code.toLowerCase(); the filler is its own lower case
CodeToLowerCase(code) == [body |-> toLowerCase(code.body), pad |-> code.pad]

\* lowerCode.includes(p): a window of Len(p) characters of the whole text
\* lies in the body followed by at most Len(p) filler characters.
CodeIncludes(code, p) ==
    includes(code.body \o Fill(Min(code.pad, Len(p))), p)

DANGEROUS_PATTERNS == <<
      <<"r", "m", " ", "-", "r", "f">>,
      <<"s", "u", "d", "o">>,
      <<"s", "h", "u", "t", "d", "o", "w", "n">>,
      <<"r", "e", "b", "o", "o", "t">>,
      <<"h", "a", "l", "t">>,
      <<">", " ", "/", "d", "e", "v", "/", "s", "d", "a">>,
      <<"d", "d", " ", "i", "f", "=">>,
      <<"m", "k", "f", "s">>,
      <<"f", "d", "i", "s", "k">>,
      <<"c", "h", "m", "o", "d", " ", "7", "7", "7">>,
      <<"c", "h", "o", "w", "n">>,
      <<"p", "a", "s", "s", "w", "d">>,
      <<"u", "s", "e", "r", "a", "d", "d">>,
      <<"w", "g", "e", "t">>,
      <<"c", "u", "r", "l">>,
      <<"n", "c", " ">>,
      <<"n", "e", "t", "c", "a", "t">>,
      <<"t", "e", "l", "n", "e", "t">>,
      <<"p", "y", "t", "h", "o", "n", " ", "-", "c">>,
      <<"p", "e", "r", "l", " ", "-", "e">>,
      <<"b", "a", "s", "h", " ", "-", "c">>,
      <<"s", "h", " ", "-", "c">>,
      <<"_", "_", "i", "m", "p", "o", "r", "t", "_", "_">>,
      <<"e", "v", "a", "l", "(">>,
      <<"e", "x", "e", "c", "(">>,
      <<"c", "o", "m", "p", "i", "l", "e", "(">>,
      <<"p", "r", "o", "c", "e", "s", "s", ".", "e", "x", "i", "t">>,
      <<"r", "e", "q", "u", "i", "r", "e", "(", "\"", "c", "h", "i", "l", "d", "_", "p", "r", "o", "c", "e", "s", "s", "\"", ")">>,
      <<"f", "s", ".", "w", "r", "i", "t", "e", "F", "i", "l", "e", "S", "y", "n", "c">>,
      <<"f", "s", ".", "u", "n", "l", "i", "n", "k", "S", "y", "n", "c">>,
      <<"e", "x", "e", "c", "S", "y", "n", "c">>,
      <<"s", "p", "a", "w", "n", "S", "y", "n", "c">> >>

DANGEROUS_MODULES == <<
      <<"c", "h", "i", "l", "d", "_", "p", "r", "o", "c", "e", "s", "s">>,
      <<"f", "s">>,
      <<"o", "s">>,
      <<"p", "r", "o", "c", "e", "s", "s">>,
      <<"c", "l", "u", "s", "t", "e", "r">>,
      <<"v", "m">>,
      <<"w", "o", "r", "k", "e", "r", "_", "t", "h", "r", "e", "a", "d", "s">> >>

dangerousPython == <<
      <<"o", "s", ".">>,
      <<"s", "u", "b", "p", "r", "o", "c", "e", "s", "s">>,
      <<"s", "h", "u", "t", "i", "l">>,
      <<"s", "y", "s", ".">>,
      <<"i", "m", "p", "o", "r", "t", " ">>,
      <<"_", "_", "i", "m", "p", "o", "r", "t", "_", "_">> >>

MaxCodeLength      == 10240
MAX_EXECUTION_TIME == 5000
MAX_OUTPUT_SIZE    == 10240

S_require_dq(m) == <<"r", "e", "q", "u", "i", "r", "e", "(", "\"">> \o m \o <<"\"", ")">>
S_require_sq(m) == <<"r", "e", "q", "u", "i", "r", "e", "(", "'">> \o m \o <<"'", ")">>

\* for (const pattern of DANGEROUS_PATTERNS): index of the first hit, 0 if none
RECURSIVE FirstPattern(_, _)
FirstPattern(lowerCode, i) ==
    IF i > Len(DANGEROUS_PATTERNS) THEN 0
    ELSE IF CodeIncludes(lowerCode, toLowerCase(DANGEROUS_PATTERNS[i])) THEN i
    ELSE FirstPattern(lowerCode, i + 1)

\* for (const pattern of dangerousPython)
RECURSIVE FirstPython(_, _)
FirstPython(lowerCode, i) ==
    IF i > Len(dangerousPython) THEN 0
    ELSE IF CodeIncludes(lowerCode, dangerousPython[i]) THEN i
    ELSE FirstPython(lowerCode, i + 1)

\* for (const module of DANGEROUS_MODULES)
RECURSIVE FirstModule(_, _)
FirstModule(lowerCode, i) ==
    IF i > Len(DANGEROUS_MODULES) THEN 0
    ELSE IF \/ CodeIncludes(lowerCode, S_require_dq(DANGEROUS_MODULES[i]))
            \/ CodeIncludes(lowerCode, S_require_sq(DANGEROUS_MODULES[i]))
    THEN i
    ELSE FirstModule(lowerCode, i + 1)

Valid == [valid |-> TRUE, error |-> "", detail |-> <<>>]
Invalid(error, detail) == [valid |-> FALSE, error |-> error, detail |-> detail]

\* The body of validateCode, given what it searches (lowerCode).
ValidateWith(language, code, lowerCode) ==
    LET p == FirstPattern(lowerCode, 1)
        m == FirstModule(lowerCode, 1)
        y == FirstPython(lowerCode, 1)
    IN  IF p > 0 THEN Invalid("Security violation", DANGEROUS_PATTERNS[p])
        ELSE IF language = "javascript" /\ m > 0
        THEN Invalid("Blocked module", DANGEROUS_MODULES[m])
        ELSE IF language = "python" /\ y > 0
        THEN Invalid("Blocked Python operation", dangerousPython[y])
        ELSE IF CodeLength(code) > MaxCodeLength
        THEN Invalid("Code too large (max 10KB)", <<>>)
        ELSE Valid

\* Mutant of validateCode: the code is searched as written, not lower-cased.
validateCode_CaseSensitive(language, code) == ValidateWith(language, code, code)

\* function validateCode(language, code)
validateCode(language, code) == ValidateWith(language, code, CodeToLowerCase(code))

\* Inputs: every denylist entry as written, in upper case and in alternating
\* case, alone and inside other text; the require forms of every module;
\* the Python operations; harmless codes; codes at and over the size limit.
UpperChar(c) ==
    IF \E i \in 1..26 : LowerLetters[i] = c
    THEN UpperLetters[CHOOSE i \in 1..26 : LowerLetters[i] = c]
    ELSE c

toUpperCase(s) == [i \in 1..Len(s) |-> UpperChar(s[i])]

AlternateCase(s) == [i \in 1..Len(s) |-> IF i % 2 = 1 THEN UpperChar(s[i]) ELSE LowerChar(s[i])]

Casings(s) == {s, toUpperCase(s), AlternateCase(s)}

Inside(s) == <<"a", " ">> \o s \o <<" ", "b">>

SeqRange(q) == {q[i] : i \in 1..Len(q)}

S_child_process == DANGEROUS_MODULES[1]
S_import_dq(m)  == <<"i", "m", "p", "o", "r", "t", "(", "\"">> \o m \o <<"\"", ")">>
S_one           == <<"1">>
S_print         == <<"p", "r", "i", "n", "t", "(", "1", ")">>

Texts ==
    LET pats  == UNION {Casings(p) : p \in SeqRange(DANGEROUS_PATTERNS)}
        mods  == UNION {Casings(S_require_dq(m)) \cup Casings(S_require_sq(m)) :
                          m \in SeqRange(DANGEROUS_MODULES)}
        pys   == UNION {Casings(p) : p \in SeqRange(dangerousPython)}
        plain == {S_one, S_print, S_child_process, S_import_dq(S_child_process)}
    IN  pats \cup {Inside(t) : t \in pats} \cup mods \cup pys \cup plain

Codes ==
    {[body |-> t, pad |-> 0] : t \in Texts}
    \cup {[body |-> S_one, pad |-> n] :
             n \in {MaxCodeLength - 1, MaxCodeLength, MaxCodeLength + 1}}

Languages == {"javascript", "python", "golang", "html", "ruby"}

SbIdle == [pc |-> "idle", language |-> "", code |-> [body |-> <<>>, pad |-> 0],
           validation |-> Valid, spawned |-> 0, procAlive |-> FALSE, kind |-> "none",
           result |-> [output |-> "", error |-> "", detail |-> <<>>]]

IdleSbx ==
    /\ sb = SbIdle
    /\ disk = {}

Result(output, error, detail) == [output |-> output, error |-> error, detail |-> detail]

\* The paths executeCode writes for a language.
TempPaths(language) ==
    IF language = "golang" THEN {"tempFile.go"}
    ELSE IF language \in {"javascript", "python"} THEN {"tempFile"}
    ELSE {}

\* Mutant of SbCall: the switch has no default branch, a language it does
\* not know is run like a script.
SbCall_NoDefault ==
    /\ sb.pc = "idle"
    /\ \E l \in Languages, c \in Codes :
          LET v    == validateCode(l, c)
              call == [sb EXCEPT !.language = l, !.code = c, !.validation = v]
          IN  sb' =
                IF ~v.valid
                THEN [call EXCEPT !.pc = "returned",
                                  !.result = Result("", "Security Error: " \o v.error, v.detail)]
                ELSE IF l = "html"
                THEN [call EXCEPT !.pc = "returned", !.result = Result("code", "", <<>>)]
                ELSE [call EXCEPT !.pc = "awaitWrite"]
    /\ UNCHANGED disk
    /\ UNCHANGED NotSbx

\* executeCode(language, code) up to its first await or its return:
\* validation, then the switch on the language.
SbCall ==
    /\ sb.pc = "idle"
    /\ \E l \in Languages, c \in Codes :
          LET v    == validateCode(l, c)
              call == [sb EXCEPT !.language = l, !.code = c, !.validation = v]
          IN  sb' =
                IF ~v.valid
                THEN [call EXCEPT !.pc = "returned",
                                  !.result = Result("", "Security Error: " \o v.error, v.detail)]
                ELSE IF l \in {"javascript", "python", "golang"}
                THEN [call EXCEPT !.pc = "awaitWrite"]
                ELSE IF l = "html"
                THEN [call EXCEPT !.pc = "returned", !.result = Result("code", "", <<>>)]
                ELSE [call EXCEPT !.pc = "returned",
                                  !.result = Result("", "Unsupported language", <<>>)]
    /\ UNCHANGED disk
    /\ UNCHANGED NotSbx

\* await fs.writeFile(...) resolves; execPromise(command, ...) spawns the shell.
SbWriteDone ==
    /\ sb.pc = "awaitWrite"
    /\ disk' = disk \cup TempPaths(sb.language)
    /\ sb' = [sb EXCEPT !.pc = "awaitExec", !.spawned = @ + 1, !.procAlive = TRUE]
    /\ UNCHANGED NotSbx

\* await fs.writeFile(...) rejects: the catch branch returns error.message.
SbWriteFails ==
    /\ sb.pc = "awaitWrite"
    /\ sb' = [sb EXCEPT !.pc = "returned", !.result = Result("", "error.message", <<>>)]
    /\ UNCHANGED disk
    /\ UNCHANGED NotSbx

\* try { await fs.unlink(tempFile); if (golang) await fs.unlink(tempFile + '.go') }
\* catch (e) {}: unlink of a path that does not exist rejects, and the rest of
\* the try block is skipped.
CleanUp(files, language) ==
    IF "tempFile" \notin files THEN files
    ELSE IF language = "golang" THEN files \ {"tempFile", "tempFile.go"}
    ELSE files \ {"tempFile"}

\* The process exits with code 0: execPromise resolves with stdout and
\* stderr, the temp file is cleaned up and the result returned.
SbExecResolves ==
    /\ sb.pc = "awaitExec"
    /\ disk' = CleanUp(disk, sb.language)
    /\ \E stdout \in BOOLEAN, stderr \in BOOLEAN :
          sb' = [sb EXCEPT !.pc = "returned", !.procAlive = FALSE, !.kind = "exit0",
                           !.result = Result(
                               IF stdout THEN "stdout" ELSE IF stderr THEN "stderr"
                               ELSE "No output",
                               IF stderr /\ ~stdout THEN "stderr" ELSE "", <<>>)]
    /\ UNCHANGED NotSbx

\* execPromise rejects.  exit: the process ends with a non-zero code.
\* timeoutUtility: `timeout 5` ends the script (code 124).  execTimeout: the
\* timeout option kills the shell with SIGTERM.  maxBuffer: more output than
\* MAX_OUTPUT_SIZE, the shell is killed.  In the last two error.killed is
\* true, and what the shell had started may still run.
SbExecRejects ==
    /\ sb.pc = "awaitExec"
    /\ \E kind \in {"exit", "timeoutUtility", "execTimeout", "maxBuffer"},
          alive \in BOOLEAN :
          /\ kind \in {"exit", "timeoutUtility"} => ~alive
          /\ sb' = [sb EXCEPT !.pc = "returned", !.procAlive = alive, !.kind = kind,
                              !.result =
                                 IF kind \in {"execTimeout", "maxBuffer"}
                                 THEN Result("", "Execution timed out (5 second limit)", <<>>)
                                 ELSE Result("", "error.message", <<>>)]
    /\ UNCHANGED disk
    /\ UNCHANGED NotSbx

NextSbx ==
    \/ SbCall
    \/ SbWriteDone
    \/ SbWriteFails
    \/ SbExecResolves
    \/ SbExecRejects

----------------------------------------------------------------------------
(* src/index.js lines 1569-1602: the handler that lower-cases the message  *)
(* and the trigger, runs every matching JavaScript command with eval and   *)
(* has no break.                                                           *)

S_Ping     == <<"P", "i", "n", "g">>
S_bPING    == <<"!", "P", "I", "N", "G">>
S_P_bang   == <<"P", "!">>
S_Pbping   == <<"P", "!", "p", "i", "n", "g">>
S_pbping   == <<"p", "!", "p", "i", "n", "g">>
S_HELP_ME  == <<"H", "E", "L", "P", " ", "M", "E">>

L_ping == Cmd("lping", "Command (prefix)", S_ping, "JavaScript", "string", <<>>)
L_Ping == Cmd("uping", "Command (prefix)", S_Ping, "JavaScript", "throws", <<>>)
L_help == Cmd("lhelp", "Exact Match",      S_help, "JavaScript", "string", <<>>)
L_hs   == Cmd("lhs",   "Starts with",      S_help, "JavaScript", "string", <<>>)
L_py   == Cmd("lpy",   "Command (prefix)", S_ping, "Python",     "string", <<>>)

LowRegistries ==
    { <<>>, <<L_ping>>, <<L_Ping, L_ping>>, <<L_help, L_hs>>, <<L_py, L_ping>>,
      <<L_hs, BadJson, L_help>> }

LowPrefixes == {<<>>, <<"?">>, S_P_bang}

LowMessages == {S_bping, S_bPING, S_Pbping, S_pbping, S_qping, S_help, S_HELP_ME}

\* the if / else if chain that sets `match`
LowMatches(cmd, content, prefix) ==
    IF cmd.type = "Command (prefix)" /\ StartsWith(content, prefix \o toLowerCase(cmd.trigger))
    THEN TRUE
    ELSE IF cmd.type = "Exact Match" /\ content = toLowerCase(cmd.trigger)
    THEN TRUE
    ELSE IF cmd.type = "Starts with" /\ StartsWith(content, toLowerCase(cmd.trigger))
    THEN TRUE
    ELSE FALSE

\* for (const id in commands): the ids of the commands eval ran, in order.
\* JSON.parse throwing ends the loop in the outer catch; what eval throws is
\* caught inside the loop.
RECURSIVE LowRunFrom(_, _, _, _, _)
LowRunFrom(cmds, i, message, prefix, ran) ==
    IF i > Len(cmds) THEN ran
    ELSE IF cmds[i].json # "ok" THEN ran
    ELSE LET content == toLowerCase(message)
             match   == LowMatches(cmds[i], content, prefix)
         IN  LowRunFrom(cmds, i + 1, message, prefix,
                 IF match /\ cmds[i].lang = "JavaScript"
                 THEN Append(ran, cmds[i].id) ELSE ran)

LwIdle == [pc |-> "idle", content |-> <<>>, cmds |-> <<>>, prefix |-> <<>>,
           execs |-> <<>>]

IdleLow == lw = LwIdle

\* messageCreate of a user in a guild: up to await redis.hgetall.
LowReceive ==
    /\ lw.pc = "idle"
    /\ \E c \in LowMessages : lw' = [LwIdle EXCEPT !.pc = "awaitCommands", !.content = c]
    /\ UNCHANGED NotLow

\* redis.hgetall resolves; the handler calls redis.get.
LowGotCommands ==
    /\ lw.pc = "awaitCommands"
    /\ lw' = [lw EXCEPT !.pc = "awaitPrefix", !.cmds = redisCommands]
    /\ UNCHANGED NotLow

\* redis.hgetall or redis.get rejects: the outer catch.
LowRedisFails ==
    /\ lw.pc \in {"awaitCommands", "awaitPrefix"}
    /\ lw' = [lw EXCEPT !.pc = "done"]
    /\ UNCHANGED NotLow

\* redis.get resolves; the whole loop runs without an await.
LowGotPrefix ==
    /\ lw.pc = "awaitPrefix"
    /\ LET prefix == PrefixOrDefault(redisPrefix)
       IN  lw' = [lw EXCEPT !.pc = "done", !.prefix = prefix,
                            !.execs = LowRunFrom(lw.cmds, 1, lw.content, prefix, <<>>)]
    /\ UNCHANGED NotLow

NextLow ==
    \/ LowReceive
    \/ LowGotCommands
    \/ LowRedisFails
    \/ LowGotPrefix

----------------------------------------------------------------------------
(* src/unnamed/part_001: executeCode.                                      *)

ExeFiles == {"temp.py", "temp.go"}

ExIdle == [pc |-> "idle", lang |-> "", code |-> "", ran |-> "", result |-> ""]

IdleExe ==
    /\ ex = [h \in Handlers |-> ExIdle]
    /\ tempFiles = [f \in ExeFiles |-> ""]

ExeLangs == {"js", "py", "go", "rb"}

\* The scripts of the commands: each prints its own name.
ExeCodes == {"a", "b"}

\* The file an invocation writes and has run: 'temp.py' or 'temp.go'.
ExeFileOf(lang) == IF lang = "py" THEN "temp.py" ELSE "temp.go"

\* executeCode(lang, code, context) up to the point where it returns its
\* promise: for py and go the file is written synchronously and exec has
\* started the interpreter, which has not read the file yet.
ExeCall(h) ==
    /\ ex[h].pc = "idle"
    /\ \E l \in ExeLangs, c \in ExeCodes :
          LET call == [ExIdle EXCEPT !.lang = l, !.code = c]
          IN  IF l = "js"
              THEN /\ ex' = [ex EXCEPT ![h] = [call EXCEPT !.pc = "awaitVm", !.ran = c]]
                   /\ UNCHANGED tempFiles
              ELSE IF l \in {"py", "go"}
              THEN /\ ex' = [ex EXCEPT ![h] = [call EXCEPT !.pc = "spawned"]]
                   /\ tempFiles' = [tempFiles EXCEPT ![ExeFileOf(l)] = c]
              ELSE /\ ex' = [ex EXCEPT ![h] = [call EXCEPT !.pc = "returned",
                                                           !.result = "undefined"]]
                   /\ UNCHANGED tempFiles
    /\ UNCHANGED NotExe

\* await vm.run(...) settles: the value of the script, or 'JS Error: ...'.
ExeVmDone(h) ==
    /\ ex[h].pc = "awaitVm"
    /\ \E failed \in BOOLEAN :
          ex' = [ex EXCEPT ![h].pc = "returned",
                           ![h].result = IF failed THEN "JS Error" ELSE "out:" \o ex[h].ran]
    /\ UNCHANGED tempFiles
    /\ UNCHANGED NotExe

\* The interpreter started by exec (python3 temp.py, go run temp.go) opens
\* and reads the file: it runs what the file holds at that moment.
ExeProcReads(h) ==
    /\ ex[h].pc = "spawned"
    /\ ex' = [ex EXCEPT ![h].pc = "running", ![h].ran = tempFiles[ExeFileOf(ex[h].lang)]]
    /\ UNCHANGED tempFiles
    /\ UNCHANGED NotExe

\* The callback of exec: the promise resolves with the error text when
\* error is set (the second resolve is ignored), else with stdout.
ExeProcExits(h) ==
    /\ ex[h].pc = "running"
    /\ \E error \in BOOLEAN :
          ex' = [ex EXCEPT ![h].pc = "returned",
                           ![h].result = IF error THEN "err:" \o ex[h].ran
                                         ELSE "out:" \o ex[h].ran]
    /\ UNCHANGED tempFiles
    /\ UNCHANGED NotExe

NextExe ==
    \/ \E h \in Handlers : ExeCall(h)
    \/ \E h \in Handlers : ExeVmDone(h)
    \/ \E h \in Handlers : ExeProcReads(h)
    \/ \E h \in Handlers : ExeProcExits(h)

----------------------------------------------------------------------------
(* src/bot.js: addLog, runCommand and the messageCreate handler.           *)

MaxBotMsgs == 2       \* messageCreate events of a behaviour

MaxLogs == 50

Guilds == {"g1", "g2"}

\* { guildId, timestamp, message }: seq, the number of the push, stands for
\* the timestamp.
LogEntry(guildId, seq, message) == [guildId |-> guildId, seq |-> seq, message |-> message]

\* Mutant of addLog: nothing is shifted out.
addLog_NoShift(logs, guildId, seq, message) ==
    Append(logs, LogEntry(guildId, seq, message))

\* Mutant of addLog: the newest entry is dropped instead of the oldest.
addLog_Pop(logs, guildId, seq, message) ==
    LET pushed == Append(logs, LogEntry(guildId, seq, message))
    IN  IF Len(pushed) > MaxLogs THEN SubSeq(pushed, 1, Len(pushed) - 1) ELSE pushed

\* function addLog(guildId, message): liveLogs after the call
addLog(logs, guildId, seq, message) ==
    LET pushed == Append(logs, LogEntry(guildId, seq, message))
    IN  IF Len(pushed) > MaxLogs THEN Tail(pushed) ELSE pushed

\* Stored commands: code is what the script does: "ok" returns, "throws"
\* throws, "logs" calls sendLog once and returns.
B_ok     == [json |-> "ok", id |-> "bok",  trigger |-> S_ping, code |-> "ok"]
B_throws == [json |-> "ok", id |-> "bthr", trigger |-> S_ping, code |-> "throws"]
B_logs   == [json |-> "ok", id |-> "blog", trigger |-> <<"p">>, code |-> "logs"]

BotRegistries ==
    { <<>>, <<B_ok>>, <<B_throws, B_logs>>, <<B_logs, BadJson, B_ok>> }

BotMessages == {S_bping, S_help}

BtIdle == [pc |-> "idle", guild |-> "", content |-> <<>>, cmds |-> <<>>, i |-> 0,
           pushed |-> 0, runs |-> <<>>, msgs |-> 0]

IdleBot ==
    /\ bt = BtIdle
    /\ liveLogs = <<>>
    /\ history = <<>>

\* liveLogs after n earlier executions that succeeded: n 'Executing' entries.
EarlierLogs(n) == [k \in 1..n |-> LogEntry("g1", k, "Executing")]

\* The for-in loop from entry i on, up to the next await: JSON.parse
\* throwing ends the handler; at a match runCommand is called, which logs
\* 'Executing', starts the script (whose sendLog call logs too) and awaits it.
RECURSIVE BotLoopFrom(_, _, _, _)
BotLoopFrom(b, i, logs, hist) ==
    IF i > Len(b.cmds) THEN [bt |-> [b EXCEPT !.pc = "done", !.i = i], logs |-> logs, hist |-> hist]
    ELSE IF b.cmds[i].json # "ok"
    THEN [bt |-> [b EXCEPT !.pc = "done", !.i = i], logs |-> logs, hist |-> hist]
    ELSE IF StartsWith(b.content, S_bang \o b.cmds[i].trigger)
    THEN LET n1 == Len(hist) + 1
             l1 == addLog(logs, b.guild, n1, "Executing")
             h1 == Append(hist, LogEntry(b.guild, n1, "Executing"))
             sl == b.cmds[i].code = "logs"
         IN  [bt   |-> [b EXCEPT !.pc = "awaitVm", !.i = i,
                                 !.pushed = IF sl THEN 2 ELSE 1],
              logs |-> IF sl THEN addLog(l1, b.guild, n1 + 1, "script") ELSE l1,
              hist |-> IF sl THEN Append(h1, LogEntry(b.guild, n1 + 1, "script")) ELSE h1]
    ELSE BotLoopFrom(b, i + 1, logs, hist)

\* messageCreate of a user in a guild: up to await redis.hgetall.
BotReceive ==
    /\ bt.pc \in {"idle", "done"}
    /\ bt.msgs < MaxBotMsgs
    /\ \E g \in Guilds, c \in BotMessages :
          bt' = [BtIdle EXCEPT !.pc = "awaitCommands", !.guild = g, !.content = c,
                               !.msgs = bt.msgs + 1]
    /\ UNCHANGED <<liveLogs, history>>
    /\ UNCHANGED NotBot

\* redis.hgetall rejects: so does the handler.
BotRedisFails ==
    /\ bt.pc = "awaitCommands"
    /\ bt' = [bt EXCEPT !.pc = "done"]
    /\ UNCHANGED <<liveLogs, history>>
    /\ UNCHANGED NotBot

\* redis.hgetall resolves and the loop starts.
BotGotCommands ==
    /\ bt.pc = "awaitCommands"
    /\ LET r == BotLoopFrom([bt EXCEPT !.cmds = redisCommands], 1, liveLogs, history)
       IN  /\ bt' = r.bt
           /\ liveLogs' = r.logs
           /\ history' = r.hist
    /\ UNCHANGED NotBot

\* await vm.run(...) settles.  A script that threw: the catch logs 'Error'
\* and replies.  runCommand returns and the loop goes on with the next entry.
BotVmDone ==
    /\ bt.pc = "awaitVm"
    /\ LET threw == bt.cmds[bt.i].code = "throws"
           n     == Len(history) + 1
           logs  == IF threw THEN addLog(liveLogs, bt.guild, n, "Error") ELSE liveLogs
           hist  == IF threw THEN Append(history, LogEntry(bt.guild, n, "Error"))
                    ELSE history
           run   == [cmd |-> bt.cmds[bt.i].id, threw |-> threw,
                     pushed |-> bt.pushed + (IF threw THEN 1 ELSE 0)]
           r     == BotLoopFrom([bt EXCEPT !.runs = Append(@, run), !.pushed = 0],
                                bt.i + 1, logs, hist)
       IN  /\ bt' = r.bt
           /\ liveLogs' = r.logs
           /\ history' = r.hist
    /\ UNCHANGED NotBot

NextBot ==
    \/ BotReceive
    \/ BotRedisFails
    \/ BotGotCommands
    \/ BotVmDone

----------------------------------------------------------------------------
(* src/bot.js lines 53-73: the db binding of runCommand.  A script run for *)
(* a message of guild g calls db.set, db.get, db.del and db.all.           *)

DbKeys == {"k1", "k2"}

\* Values scripts store, and JSON.stringify / JSON.parse of them.
DbValues == {1, 2}

JsonStringify(v) == IF v = 1 THEN "1" ELSE "2"

JsonParse(t) == IF t = "1" THEN 1 ELSE 2

\* Mutant of DbHash: one hash for all guilds.
DbHash_Shared(guildId) == "userdata:"

\* `userdata:${guildId}`
DbHash(guildId) == "userdata:" \o guildId

DbHashes == {DbHash(g) : g \in Guilds} \cup {"userdata:"}

\* db.get(key): data ? JSON.parse(data) : null
DbGet(store, guildId, key) ==
    LET data == store[DbHash(guildId)][key]
    IN  IF data # "" THEN <<JsonParse(data)>> ELSE <<>>

\* db.all(): redis.hgetall of the guild's hash
DbAll(store, guildId) ==
    { <<k, store[DbHash(guildId)][k]>> : k \in {f \in DbKeys : store[DbHash(guildId)][f] # ""} }

DbIdle == [guild |-> "", op |-> "", key |-> "", result |-> <<>>]

IdleDb ==
    /\ userdata = [hh \in DbHashes |-> [k \in DbKeys |-> ""]]
    /\ dbLast = DbIdle

\* db.set(key, val): redis.hset(`userdata:${guildId}`, key, JSON.stringify(val))
DbSetCall ==
    /\ \E g \in Guilds, k \in DbKeys, v \in DbValues :
          /\ userdata' = [userdata EXCEPT ![DbHash(g)][k] = JsonStringify(v)]
          /\ dbLast' = [guild |-> g, op |-> "set", key |-> k, result |-> <<>>]
    /\ UNCHANGED NotDb

\* db.del(key): redis.hdel(`userdata:${guildId}`, key)
DbDelCall ==
    /\ \E g \in Guilds, k \in DbKeys :
          /\ userdata' = [userdata EXCEPT ![DbHash(g)][k] = ""]
          /\ dbLast' = [guild |-> g, op |-> "del", key |-> k, result |-> <<>>]
    /\ UNCHANGED NotDb

\* db.get(key)
DbGetCall ==
    /\ \E g \in Guilds, k \in DbKeys :
          dbLast' = [guild |-> g, op |-> "get", key |-> k, result |-> DbGet(userdata, g, k)]
    /\ UNCHANGED userdata
    /\ UNCHANGED NotDb

\* db.all()
DbAllCall ==
    /\ \E g \in Guilds :
          dbLast' = [guild |-> g, op |-> "all", key |-> "", result |-> DbAll(userdata, g)]
    /\ UNCHANGED userdata
    /\ UNCHANGED NotDb

NextDb ==
    \/ DbSetCall
    \/ DbDelCall
    \/ DbGetCall
    \/ DbAllCall


\* ---------------------------------------------------------------------
\* unnamed/part_006 lines 171-177 and 362-428: POST /api/test-command.
\* A request with lang 'Python' or 'Go' writes the code to
\* temp_<randomUUID>.<ext>, starts `timeout 5 <interpreter> <file>` with
\* exec and answers from exec's callback; the catch around writeFileSync
\* and exec answers when one of them throws.
\* ---------------------------------------------------------------------
MaxTests == 2

TestRequests == 1..MaxTests

TestLangs == {"JavaScript", "Python", "Go"}

\* what the spawned process does: exits 0, exits non-zero, or is ended by
\* the `timeout 5` wrapper
ProcOutcomes == {"success", "error", "timeout"}

\* path.join(__dirname, 'temp_' + randomId + '.py' | '.go'): request r draws
\* its own uuid
TempFileOf(r, lang) == <<r, IF lang = "Python" THEN "py" ELSE "go">>

TcIdle == [pc |-> "idle", lang |-> "", file |-> <<>>, responses |-> 0,
           status |-> 0, path |-> ""]

IdleTst ==
    /\ tc = [r \in TestRequests |-> TcIdle]
    /\ tcFiles = {}

cleanupTempFile_Keep(files, filepath) == files

\* cleanupTempFile: if (fs.existsSync(filepath)) fs.unlinkSync(filepath)
cleanupTempFile(files, filepath) == files \ {filepath}

\* lang === 'JavaScript': vm.run(code) runs inside the handler; one of the
\* two res.json calls of the inner try/catch answers
TcJavaScript(r) ==
    /\ tc[r].pc = "idle"
    /\ \E threw \in BOOLEAN :
          tc' = [tc EXCEPT ![r] = [pc |-> "done", lang |-> "JavaScript",
                                   file |-> <<>>, responses |-> 1,
                                   status |-> 200,
                                   path |-> IF threw THEN "vm threw" ELSE "vm ran"]]
    /\ UNCHANGED tcFiles
    /\ UNCHANGED NotTst

\* lang 'Python' | 'Go': fs.writeFileSync(tempFile, code) succeeds and exec
\* starts the process; the handler returns without answering
TcSpawn(r) ==
    /\ tc[r].pc = "idle"
    /\ \E lang \in {"Python", "Go"} :
          /\ tc' = [tc EXCEPT ![r] = [pc |-> "running", lang |-> lang,
                                      file |-> TempFileOf(r, lang),
                                      responses |-> 0, status |-> 0,
                                      path |-> ""]]
          /\ tcFiles' = tcFiles \cup {TempFileOf(r, lang)}
    /\ UNCHANGED NotTst

\* lang 'Python' | 'Go': fs.writeFileSync throws (the file may have been
\* created before the failure), or exec throws after the file was written;
\* catch (e): cleanupTempFile(tempFile); res.json({ output: 'Error: ...' })
TcWriteFails(r) ==
    /\ tc[r].pc = "idle"
    /\ \E lang \in {"Python", "Go"}, created \in BOOLEAN :
          LET f == TempFileOf(r, lang)
              onDisk == IF created THEN tcFiles \cup {f} ELSE tcFiles
          IN  /\ tc' = [tc EXCEPT ![r] = [pc |-> "done", lang |-> lang,
                                          file |-> f, responses |-> 1,
                                          status |-> 200,
                                          path |-> IF created THEN "write failed, file left"
                                                              ELSE "write failed"]]
              /\ tcFiles' = cleanupTempFile(onDisk, f)
    /\ UNCHANGED NotTst

\* exec's callback (error, stdout, stderr): output = stdout || stderr ||
\* 'No output'; cleanupTempFile(tempFile); res.json({ output })
TcProcEnds(r) ==
    /\ tc[r].pc = "running"
    /\ \E outcome \in ProcOutcomes :
          tc' = [tc EXCEPT ![r].pc = "done", ![r].responses = @ + 1,
                           ![r].status = 200, ![r].path = outcome]
    /\ tcFiles' = cleanupTempFile(tcFiles, tc[r].file)
    /\ UNCHANGED NotTst

NextTst ==
    \/ \E r \in TestRequests : TcJavaScript(r)
    \/ \E r \in TestRequests : TcSpawn(r)
    \/ \E r \in TestRequests : TcWriteFails(r)
    \/ \E r \in TestRequests : TcProcEnds(r)


\* ---------------------------------------------------------------------
\* bot.js lines 440-460 and unnamed/part_006 lines 233-247: POST
\* /api/save-command for one guild.  The handler reads the size of the hash
\* (await redis.hlen), refuses a request that is not an edit when the size
\* is 100 or more, gives the command an id when it carries none, and
\* writes the field (await redis.hset).  Each await is a point where other
\* requests run.
\* ---------------------------------------------------------------------
MaxSaves == 2

MaxCommands == 100

SaveRequests == 1..MaxSaves

\* ids: 1..MaxCommands are the ids a full guild holds; larger numbers are
\* ids the guild does not hold yet
NoId == 0

NewIds == {MaxCommands + 1, MaxCommands + 2}

\* command.id of a request body: absent, the id of a stored command, or an
\* id chosen by the client
BodyIds == {NoId, 1} \cup NewIds

\* crypto.randomUUID(): an id no other request and no stored command has
randomUUID(r) == MaxCommands + 10 + r

SvIdle == [pc |-> "idle", count |-> 0, isEdit |-> FALSE, id |-> NoId, status |-> 0]

IdleSav ==
    /\ sv = [r \in SaveRequests |-> SvIdle]
    /\ stored = {}

\* const count = await redis.hlen(...); if (!command.isEdit && count >= 100)
\* return res.status(403); if (!command.id) command.id = crypto.randomUUID()
SaveRead(r) ==
    /\ sv[r].pc = "idle"
    /\ \E isEdit \in BOOLEAN, id \in BodyIds :
          LET count == Cardinality(stored)
          IN  sv' = [sv EXCEPT ![r] =
                       IF ~isEdit /\ count >= MaxCommands
                       THEN [pc |-> "done", count |-> count, isEdit |-> isEdit,
                             id |-> id, status |-> 403]
                       ELSE [pc |-> "hset", count |-> count, isEdit |-> isEdit,
                             id |-> IF id = NoId THEN randomUUID(r) ELSE id,
                             status |-> 0]]
    /\ UNCHANGED stored
    /\ UNCHANGED NotSav

\* await redis.hset('commands:' + guildId, command.id, JSON.stringify(command));
\* res.json({ success: true, ... })
SaveWrite(r) ==
    /\ sv[r].pc = "hset"
    /\ stored' = stored \cup {sv[r].id}
    /\ sv' = [sv EXCEPT ![r].pc = "done", ![r].status = 200]
    /\ UNCHANGED NotSav

NextSav ==
    \/ \E r \in SaveRequests : SaveRead(r)
    \/ \E r \in SaveRequests : SaveWrite(r)


\* ---------------------------------------------------------------------
\* index.js lines 730-780 and 1010-1025: sessions.  createSession stores
\* the session under session:<id> with a 24-hour TTL; validateSession
\* checks the id's signature, reads the key, refuses an expired session,
\* writes the session back with a new lastActivity and a fresh TTL, and
\* returns it; logout deletes the key.  Every await on Redis is a point
\* where other requests run.
\* ---------------------------------------------------------------------
\* 24 hours, in clock ticks
DayTicks == 3

MaxClock == 3

\* two requests validated at the same time
Validators == {"va", "vb"}

None == [none |-> TRUE]

\* a key that was deleted (its uuid is not issued again)
Gone == [gone |-> TRUE]

\* crypto.createHmac('sha256', SESSION_SECRET).update(uuid).digest('hex')
\* .substring(0, 16)
Hmac(uuid) == IF uuid = "u1" THEN "h1" ELSE "h0"

\* generateSessionId: `${uuid}:${signature}`, kept as the parts between ':'
generateSessionId(uuid) == <<uuid, Hmac(uuid)>>

GoodId == generateSessionId("u1")

\* ids a request can carry: the issued one, one with a wrong signature, the
\* issued one with a further ':' part, one without signature
SessionIds == {GoodId, <<"u1", "h0">>, <<"u1", "h1", "x">>, <<"u1">>}

\* verifySessionId: const [uuid, signature] = sessionId.split(':');
\* if (!uuid || !signature) return false; return signature === hmac prefix
verifySessionId(sessionId) ==
    /\ Len(sessionId) >= 2
    /\ sessionId[2] = Hmac(sessionId[1])

\* redis.get of session:<id> at the given time: a key whose TTL ran out is gone
RedisGetSession(id, t) ==
    IF sessions[id] \notin {None, Gone} /\ t < sessions[id].ttlEnd
    THEN sessions[id].data
    ELSE None

\* redis.setex(key, 24 * 60 * 60, JSON.stringify(session))
Setex(id, data, t) == [sessions EXCEPT ![id] = [data |-> data, ttlEnd |-> t + DayTicks]]

Touch_Extend(session, t) ==
    [session EXCEPT !.lastActivity = t, !.expiresAt = t + DayTicks]

\* session.lastActivity = Date.now()
Touch(session, t) == [session EXCEPT !.lastActivity = t]

SesIdle == [pc |-> "idle", id |-> <<>>, session |-> None, result |-> None,
            afterLogout |-> FALSE]

IdleSes ==
    /\ clock = 0
    /\ sessions = [id \in SessionIds |-> None]
    /\ ses = [v \in Validators |-> SesIdle]
    /\ loggedOut = {}

SesTick ==
    /\ clock < MaxClock
    /\ clock' = clock + 1
    /\ UNCHANGED <<sessions, ses, loggedOut>>
    /\ UNCHANGED NotSes

\* createSession: createdAt, expiresAt = createdAt + 24 h, lastActivity;
\* await redis.setex(...).  uuidv4 gives each session its own id, so the id
\* is issued once.
createSession ==
    /\ sessions[GoodId] = None
    /\ sessions' = Setex(GoodId, [createdAt |-> clock, expiresAt |-> clock + DayTicks,
                                  lastActivity |-> clock], clock)
    /\ UNCHANGED <<clock, ses, loggedOut>>
    /\ UNCHANGED NotSes

\* validateSession up to its second await: verifySessionId, redis.get,
\* JSON.parse, the expiresAt test, the IP test, lastActivity = Date.now()
ValidateRead(v) ==
    /\ ses[v].pc \in {"idle", "done"}
    /\ \E id \in SessionIds, ipMismatch \in BOOLEAN :
          LET data == RedisGetSession(id, clock)
              call == [SesIdle EXCEPT !.id = id, !.afterLogout = id \in loggedOut]
          IN  ses' = [ses EXCEPT ![v] =
                        IF ~verifySessionId(id) \/ data = None
                        THEN [call EXCEPT !.pc = "done"]
                        ELSE IF data.expiresAt <= clock
                        THEN [call EXCEPT !.pc = "del"]
                        ELSE IF ipMismatch
                        THEN [call EXCEPT !.pc = "done"]
                        ELSE [call EXCEPT !.pc = "setex",
                                          !.session = Touch(data, clock)]]
    /\ UNCHANGED <<clock, sessions, loggedOut>>
    /\ UNCHANGED NotSes

\* expired session: await redis.del(key); return null
ValidateDel(v) ==
    /\ ses[v].pc = "del"
    /\ sessions' = [sessions EXCEPT ![ses[v].id] = Gone]
    /\ ses' = [ses EXCEPT ![v].pc = "done"]
    /\ UNCHANGED <<clock, loggedOut>>
    /\ UNCHANGED NotSes

\* await redis.setex(key, 24 * 60 * 60, JSON.stringify(session)); return session
ValidateSetex(v) ==
    /\ ses[v].pc = "setex"
    /\ sessions' = Setex(ses[v].id, ses[v].session, clock)
    /\ ses' = [ses EXCEPT ![v].pc = "done", ![v].result = ses[v].session]
    /\ UNCHANGED <<clock, loggedOut>>
    /\ UNCHANGED NotSes

\* POST /api/logout, reached after authenticateUser got a session from
\* validateSession for the request's id: await redis.del('session:' + id);
\* res.json({ success: true })
Logout(v) ==
    /\ ses[v].pc = "done"
    /\ ses[v].result # None
    /\ sessions' = [sessions EXCEPT ![ses[v].id] = Gone]
    /\ loggedOut' = loggedOut \cup {ses[v].id}
    /\ UNCHANGED <<clock, ses>>
    /\ UNCHANGED NotSes

NextSes ==
    \/ SesTick
    \/ createSession
    \/ \E v \in Validators : ValidateRead(v)
    \/ \E v \in Validators : ValidateDel(v)
    \/ \E v \in Validators : ValidateSetex(v)
    \/ \E v \in Validators : Logout(v)


\* ---------------------------------------------------------------------
\* killswitch.js: loadGlobalState sends redis.get('global:enabled') and
\* assigns globalEnabled when the reply arrives; disableGlobally assigns
\* globalEnabled = false and sends redis.set('global:enabled', 'false').
\* The client sends its commands over one connection and Redis answers
\* them in the order sent.
\* ---------------------------------------------------------------------
MaxKsCalls == 3

\* redis.get of a key that was never set
KsNull == "null"

IdleKil ==
    /\ globalEnabled = TRUE
    /\ ksKey = KsNull
    /\ ksQueue = <<>>
    /\ ksDisabled = FALSE
    /\ ksSeen = "none"

\* loadGlobalState, up to its await: redis.get('global:enabled') is sent
loadGlobalState ==
    /\ Len(ksQueue) < MaxKsCalls
    /\ ksQueue' = Append(ksQueue, "get")
    /\ UNCHANGED <<globalEnabled, ksKey, ksDisabled, ksSeen>>
    /\ UNCHANGED NotKil

\* disableGlobally, up to its await: globalEnabled = false;
\* redis.set('global:enabled', 'false') is sent
disableGlobally ==
    /\ Len(ksQueue) < MaxKsCalls
    /\ globalEnabled' = FALSE
    /\ ksQueue' = Append(ksQueue, "set")
    /\ ksDisabled' = TRUE
    /\ UNCHANGED <<ksKey, ksSeen>>
    /\ UNCHANGED NotKil

\* globalEnabled = state !== 'false'
LoadedState(state) == state # "false"

\* Redis answers the oldest command; the call that awaits it continues:
\* loadGlobalState assigns globalEnabled, disableGlobally returns
KsReply ==
    /\ ksQueue # <<>>
    /\ ksQueue' = Tail(ksQueue)
    /\ IF Head(ksQueue) = "get"
       THEN /\ globalEnabled' = LoadedState(ksKey)
            /\ UNCHANGED ksKey
       ELSE /\ ksKey' = "false"
            /\ UNCHANGED globalEnabled
    /\ UNCHANGED <<ksDisabled, ksSeen>>
    /\ UNCHANGED NotKil

\* isEnabled(): return globalEnabled
isEnabled ==
    /\ ksSeen' = IF globalEnabled THEN "true" ELSE "false"
    /\ UNCHANGED <<globalEnabled, ksKey, ksQueue, ksDisabled>>
    /\ UNCHANGED NotKil

NextKil ==
    \/ loadGlobalState
    \/ disableGlobally
    \/ KsReply
    \/ isEnabled


\* ---------------------------------------------------------------------
\* bot.js lines 311-324 and 490-507: getPrefix answers from prefixCache
\* when the guild is cached; otherwise it sends redis.get('prefix:' + id)
\* and, when the reply arrives, caches and returns the value or '!'.  The
\* settings save sends redis.set('prefix:' + id, prefix) and, when the
\* reply arrives, puts the prefix into prefixCache.  Both use the one
\* client of line 133: commands go out over one connection and are
\* answered in the order sent.
\* ---------------------------------------------------------------------
MaxPfxCalls == 3

\* body('prefix').isString().trim().isLength({ min: 1, max: 5 })
SavedPrefixes == {"?", "$"}

\* no entry in the Map / no key in Redis / nothing yet
NoPrefix == "none"

IdlePfx ==
    /\ prefixCache = [g \in Guilds |-> NoPrefix]
    /\ pfxRedis = [g \in Guilds |-> NoPrefix]
    /\ pfxQueue = <<>>
    /\ pfxSaved = [g \in Guilds |-> NoPrefix]
    /\ pfxReturned = [guild |-> "", prefix |-> NoPrefix]

\* await redis.get('prefix:' + guildId) || '!'
StoredPrefix(g) == IF pfxRedis[g] = NoPrefix THEN "!" ELSE pfxRedis[g]

\* getPrefix, prefixCache.has(guildId): return prefixCache.get(guildId)
GetPrefixHit ==
    /\ \E g \in Guilds :
          /\ prefixCache[g] # NoPrefix
          /\ pfxReturned' = [guild |-> g, prefix |-> prefixCache[g]]
    /\ UNCHANGED <<prefixCache, pfxRedis, pfxQueue, pfxSaved>>
    /\ UNCHANGED NotPfx

\* getPrefix, guild not cached: redis.get('prefix:' + guildId) is sent
GetPrefixMiss ==
    /\ Len(pfxQueue) < MaxPfxCalls
    /\ \E g \in Guilds :
          /\ prefixCache[g] = NoPrefix
          /\ pfxQueue' = Append(pfxQueue, [op |-> "get", guild |-> g, prefix |-> NoPrefix])
    /\ UNCHANGED <<prefixCache, pfxRedis, pfxSaved, pfxReturned>>
    /\ UNCHANGED NotPfx

\* POST /api/settings/:guildId with a valid prefix: redis.set is sent
SettingsSave ==
    /\ Len(pfxQueue) < MaxPfxCalls
    /\ \E g \in Guilds, p \in SavedPrefixes :
          pfxQueue' = Append(pfxQueue, [op |-> "set", guild |-> g, prefix |-> p])
    /\ UNCHANGED <<prefixCache, pfxRedis, pfxSaved, pfxReturned>>
    /\ UNCHANGED NotPfx

CacheSaved_Skip(cache, g, p) == cache

\* settings save after its await: prefixCache.set(req.params.guildId, req.body.prefix)
CacheSaved(cache, g, p) == [cache EXCEPT ![g] = p]

\* Redis answers the oldest command and the call awaiting it continues.
\* get: prefixCache.set(guildId, prefix); return prefix.
\* set: prefixCache.set(...); res.json({ success: true }).
PfxReply ==
    /\ pfxQueue # <<>>
    /\ pfxQueue' = Tail(pfxQueue)
    /\ LET c == Head(pfxQueue)
       IN  IF c.op = "get"
           THEN /\ prefixCache' = [prefixCache EXCEPT ![c.guild] = StoredPrefix(c.guild)]
                /\ pfxReturned' = [guild |-> c.guild, prefix |-> StoredPrefix(c.guild)]
                /\ UNCHANGED <<pfxRedis, pfxSaved>>
           ELSE /\ pfxRedis' = [pfxRedis EXCEPT ![c.guild] = c.prefix]
                /\ prefixCache' = CacheSaved(prefixCache, c.guild, c.prefix)
                /\ pfxSaved' = [pfxSaved EXCEPT ![c.guild] = c.prefix]
                /\ UNCHANGED pfxReturned
    /\ UNCHANGED NotPfx

\* Redis rejects the oldest command (the key is left as it was).
\* get: catch (e) { return '!' }.  set: catch (e) { res.status(500) }.
PfxFails ==
    /\ pfxQueue # <<>>
    /\ pfxQueue' = Tail(pfxQueue)
    /\ LET c == Head(pfxQueue)
       IN  pfxReturned' = IF c.op = "get" THEN [guild |-> c.guild, prefix |-> "!"]
                          ELSE pfxReturned
    /\ UNCHANGED <<prefixCache, pfxRedis, pfxSaved>>
    /\ UNCHANGED NotPfx

NextPfx ==
    \/ GetPrefixHit
    \/ GetPrefixMiss
    \/ SettingsSave
    \/ PfxReply
    \/ PfxFails

\* the programs after the message handlers, idle
IdleMore == IdleDb /\ IdleTst /\ IdleSav /\ IdleSes /\ IdleKil /\ IdlePfx

IdleRest == IdleLow /\ IdleExe /\ IdleBot /\ IdleMore

----------------------------------------------------------------------------
(* Specifications.                                                         *)

Idle006 ==
    /\ now = StartTime
    /\ rateLimit = <<>>
    /\ pc = [h \in Handlers |-> "off"]
    /\ msg = [h \in Handlers |-> Idle]
    /\ received = 0
    /\ log = <<>>

\* part_006, overlapping handler invocations
Init == Init006 /\ IdleIdx /\ IdleCmd /\ IdleSbx /\ IdleRest

Spec == Init /\ [][Next006]_vars

\* part_006, one handler invocation at a time
InitOneAtATime == InitSeq /\ IdleIdx /\ IdleCmd /\ IdleSbx /\ IdleRest

SpecSeq == InitOneAtATime /\ [][Next006]_vars

InitIdx ==
    /\ Idle006 /\ IdleCmd /\ IdleIdx /\ IdleSbx /\ IdleRest
    /\ limit = 0
    /\ redisPrefix \in {<<>>, <<"?">>}
    /\ redisCommands \in IdxRegistries

\* index.js lines 396-452, one message
SpecIdx == InitIdx /\ [][NextIdx]_vars

InitCmd ==
    /\ Idle006 /\ IdleCmd /\ IdleIdx /\ IdleSbx /\ IdleRest
    /\ limit = MaxMsgs
    /\ redisPrefix = <<>>
    /\ redisCommands \in CmdRegistries

\* commands.js, overlapping handleMessage invocations
SpecCmd == InitCmd /\ [][NextCmd]_vars

InitSbx ==
    /\ Idle006 /\ IdleCmd /\ IdleIdx /\ IdleSbx /\ IdleRest
    /\ limit = 0
    /\ redisPrefix = <<>>
    /\ redisCommands = <<>>

\* sandbox.js, one executeCode call
SpecSbx == InitSbx /\ [][NextSbx]_vars

InitLow ==
    /\ Idle006 /\ IdleCmd /\ IdleIdx /\ IdleSbx /\ IdleRest
    /\ limit = 0
    /\ redisPrefix \in LowPrefixes
    /\ redisCommands \in LowRegistries

\* index.js lines 1569-1602, one message
SpecLow == InitLow /\ [][NextLow]_vars

InitExe ==
    /\ Idle006 /\ IdleCmd /\ IdleIdx /\ IdleSbx /\ IdleRest
    /\ limit = 0
    /\ redisPrefix = <<>>
    /\ redisCommands = <<>>

\* part_001, overlapping executeCode invocations
SpecExe == InitExe /\ [][NextExe]_vars

InitBot ==
    /\ Idle006 /\ IdleCmd /\ IdleIdx /\ IdleSbx /\ IdleLow /\ IdleExe /\ IdleMore
    /\ limit = 0
    /\ redisPrefix = <<>>
    /\ redisCommands \in BotRegistries
    /\ bt = BtIdle
    /\ \E n \in {0, MaxLogs - 2, MaxLogs - 1, MaxLogs} :
          /\ liveLogs = EarlierLogs(n)
          /\ history = EarlierLogs(n)

\* bot.js: the handler with runCommand and addLog, one message at a time
SpecBot == InitBot /\ [][NextBot]_vars

\* No program has started and Redis holds neither prefix nor commands.
InitIdle ==
    /\ Idle006 /\ IdleCmd /\ IdleIdx /\ IdleSbx /\ IdleRest
    /\ limit = 0
    /\ redisPrefix = <<>>
    /\ redisCommands = <<>>

\* bot.js, calls of scripts through the db binding
SpecDb == InitIdle /\ [][NextDb]_vars


\* unnamed/part_006, POST /api/test-command requests in flight together
SpecTst == InitIdle /\ [][NextTst]_vars


\* save-command requests for a guild that holds 98, 99 or 100 commands
InitSav ==
    /\ Idle006 /\ IdleCmd /\ IdleIdx /\ IdleSbx /\ IdleLow /\ IdleExe /\ IdleBot
    /\ IdleDb /\ IdleTst /\ IdleSes /\ IdleKil /\ IdlePfx
    /\ limit = 0
    /\ redisPrefix = <<>>
    /\ redisCommands = <<>>
    /\ sv = [r \in SaveRequests |-> SvIdle]
    /\ \E n \in {MaxCommands - 2, MaxCommands - 1, MaxCommands} : stored = 1..n

SpecSav == InitSav /\ [][NextSav]_vars


\* index.js, session requests in flight together
SpecSes == InitIdle /\ [][NextSes]_vars


\* killswitch.js, calls in flight together
SpecKil == InitIdle /\ [][NextKil]_vars


\* bot.js, getPrefix calls and settings saves in flight together
SpecPfx == InitIdle /\ [][NextPfx]_vars


----------------------------------------------------------------------------
(* Properties of the rate limiter in the part_006 handler.                 *)

LogIdx == 1..Len(log)

SameKey(i, j) == log[i].author = log[j].author /\ log[i].cmd = log[j].cmd

\* The latest earlier run of the same (author, command) that passed the
\* rate-limit check; 0 when there is none.
LastPass(i) ==
    LET S == { j \in 1..(i - 1) : log[j].k > 0 /\ SameKey(i, j) /\ log[j].passed }
    IN  IF S = {} THEN 0 ELSE CHOOSE j \in S : \A m \in S : m <= j

\* C2: two messages of one author that match the same command with a
\* configured cooldown C > 0 and are checked less than C ms apart never both
\* pass checkRateLimit, whatever the interleaving of their handlers; the one
\* that does not pass gets the 'Please wait' reply and no execution.
C2_CooldownExcludesSecond ==
    \A i \in LogIdx, j \in LogIdx :
        ( /\ i < j /\ log[i].k > 0 /\ log[j].k > 0 /\ SameKey(i, j)
          /\ log[i].cooldown # <<>> /\ log[i].cooldown[1] > 0
          /\ log[j].t - log[i].t < log[i].cooldown[1] )
        => /\ ~(log[i].passed /\ log[j].passed)
           /\ \A m \in {i, j} : ~log[m].passed =>
                  log[m].replies = <<"Please wait">> /\ log[m].execs = <<>>

\* C2 witness: the handler of a later message overtook the handler of an
\* earlier one of the same author and command; the first to be checked passed
\* and ran, the other, checked within the cooldown, was rate-limited.
C2_Witness ==
    \E i \in LogIdx, j \in LogIdx :
        /\ i < j /\ log[i].ord > log[j].ord
        /\ log[i].k > 0 /\ SameKey(i, j)
        /\ log[i].cooldown # <<>> /\ log[i].cooldown[1] > 0
        /\ log[j].t - log[i].t < log[i].cooldown[1]
        /\ log[i].passed /\ log[i].execs # <<>>
        /\ ~log[j].passed /\ log[j].replies = <<"Please wait">>

\* C4: a matched command is rate-limited exactly when the same (author,
\* command) last passed the check less than the configured cooldown ago; a
\* command configured with cooldown 0 is never rate-limited.
C4_LimitedIffWithinConfigured ==
    \A i \in LogIdx :
        (log[i].k > 0 /\ log[i].cooldown # <<>>) =>
            ( ~log[i].passed <=>
                ( LastPass(i) # 0
                  /\ log[i].t - log[LastPass(i)].t < log[i].cooldown[1] ) )

\* C5: a denied checkRateLimit call leaves the last-use time stored for its
\* key unchanged, and a call made at least `cooldown` ms after the last
\* allowed call of the key (or with no allowed call before it) is allowed.
C5_DeniedKeepsLastUse ==
    \A i \in LogIdx :
        log[i].k > 0 =>
            /\ ~log[i].passed => (log[i].sets = 0 /\ log[i].after = log[i].before)
            /\ ( LastPass(i) = 0
                 \/ log[i].t - log[LastPass(i)].t >= log[i].arg ) => log[i].passed

\* C5 witness: cooldown 2000; allowed, denied 500 ms later, allowed again
\* 2100 ms after the first call.
C5_Witness ==
    \E i \in LogIdx, j \in LogIdx, m \in LogIdx :
        /\ i < j /\ j < m /\ SameKey(i, j) /\ SameKey(j, m) /\ log[i].k > 0
        /\ log[i].arg = 2000
        /\ log[i].passed /\ ~log[j].passed /\ log[m].passed
        /\ log[j].t = log[i].t + 500 /\ log[m].t = log[i].t + 2100

\* C6: the rate-limit timestamp of (author, command) is written exactly once
\* by a message that leads to an execution attempt and not at all by a
\* message that leads to none, whatever the command's lang.
C6_StampIffExecution ==
    \A i \in LogIdx :
        /\ log[i].execs # <<>> => log[i].sets = 1
        /\ log[i].execs = <<>> => (log[i].sets = 0 /\ log[i].after = log[i].before)

----------------------------------------------------------------------------
(* Properties of the handlers that stop at the first match.                *)

CmLogIdx == 1..Len(cmLog)

\* C1: in the handlers that stop after the first match (part_006, index.js
\* lines 396-452, handleMessage of commands.js) at most one command is
\* executed and at most one reply is sent for a message.
C1_AtMostOneExecutionAndReply ==
    /\ \A i \in LogIdx : Len(log[i].execs) <= 1 /\ Len(log[i].replies) <= 1
    /\ Len(ix.execs) <= 1 /\ Len(ix.replies) <= 1
    /\ \A i \in CmLogIdx : cmLog[i].execs <= 1 /\ Len(cmLog[i].replies) <= 1

\* C3: of two executeCommand calls for the same (command, author) that
\* check the cooldown less than the cooldown time apart, at most one reaches
\* runSandboxed.
C3_CheckAndCommitAtomic ==
    \A g \in Handlers, h \in Handlers :
        ( /\ g # h
          /\ cm[g].pc = "awaitSandbox" /\ cm[h].pc = "awaitSandbox"
          /\ cm[g].cmd = cm[h].cmd /\ cm[g].author = cm[h].author )
        => ( cm[g].checkedAt - cm[h].checkedAt >= CooldownSeconds * 1000
             \/ cm[h].checkedAt - cm[g].checkedAt >= CooldownSeconds * 1000 )

\* C7: when runSandboxed ends in its catch branch, the cooldown stored for
\* (command, author) is what it was before the message.
C7_BlockedKeepsCooldown ==
    \A i \in CmLogIdx :
        cmLog[i].outcome = "blocked" => cmLog[i].expiryAfter = cmLog[i].expiryBefore

----------------------------------------------------------------------------
(* Properties of validateCode and executeCode (sandbox.js).                *)

\* Two characters that are the same letter, whatever their case.
SameLetter(a, b) ==
    a = b \/ \E i \in 1..26 : {a, b} = {LowerLetters[i], UpperLetters[i]}

\* The text of the code holds p somewhere, in any letter case.
ContainsAnyCase(code, p) ==
    LET text == code.body \o Fill(Min(code.pad, Len(p)))
    IN  \E i \in 0..(Len(text) - Len(p)) :
            \A k \in 1..Len(p) : SameLetter(text[i + k], p[k])

Denylisted(code) ==
    \E i \in 1..Len(DANGEROUS_PATTERNS) : ContainsAnyCase(code, DANGEROUS_PATTERNS[i])

\* C8: for every language, a code that holds an entry of DANGEROUS_PATTERNS
\* in any letter case, or is longer than 10240 characters, is rejected by
\* validateCode; and for a rejected code executeCode writes no temp file and
\* spawns no process.
C8_RejectedBeforeRuntime ==
    sb.pc # "idle" =>
        /\ (Denylisted(sb.code) \/ CodeLength(sb.code) > 10240) => ~sb.validation.valid
        /\ ~sb.validation.valid =>
               (sb.pc = "returned" /\ sb.spawned = 0 /\ disk = {} /\ sb.result.output = "")

\* C8 witness: a Go program that holds a denylist entry in a case other
\* than written in the list has been rejected.
C8_Witness ==
    /\ sb.pc = "returned" /\ sb.language = "golang"
    /\ Denylisted(sb.code)
    /\ \A i \in 1..Len(DANGEROUS_PATTERNS) : ~CodeIncludes(sb.code, DANGEROUS_PATTERNS[i])
    /\ ~sb.validation.valid /\ sb.spawned = 0 /\ disk = {}

\* C9: for language javascript, every code that holds the text
\* child_process is rejected and no runtime is invoked.
C9_ChildProcessRejected ==
    ( sb.pc # "idle" /\ sb.language = "javascript"
      /\ CodeIncludes(sb.code, S_child_process) )
    => (~sb.validation.valid /\ sb.spawned = 0)

\* C10: after executeCode has returned, no temp file of the invocation is
\* left on disk.
C10_NoTempFileRemains ==
    sb.pc = "returned" => disk = {}

TimedOutResult == Result("", "Execution timed out (5 second limit)", <<>>)

\* C11: when the script has not finished within MAX_EXECUTION_TIME, whichever
\* of the two timers ended the run, executeCode returns the timed-out result
\* and the spawned process is no longer running at that moment.
C11_TimeoutAlwaysReported ==
    (sb.pc = "returned" /\ sb.kind \in {"timeoutUtility", "execTimeout"})
    => (sb.result = TimedOutResult /\ ~sb.procAlive)

\* C12: when the script wrote more than MAX_OUTPUT_SIZE, the result carries
\* captured output and does not report the overflow as a time-out or as a
\* failure of the script.
C12_OverflowTruncatedAndReported ==
    (sb.pc = "returned" /\ sb.kind = "maxBuffer")
    => ( /\ sb.result.output # ""
         /\ sb.result.error \notin {"Execution timed out (5 second limit)",
                                     "error.message"} )

SupportedLanguages == {"javascript", "python", "golang", "html"}

\* C20 as stated: called with a language outside javascript, python, golang
\* and html, executeCode returns the 'Unsupported language' error result,
\* writes no temp file and spawns no process.
C20_UnsupportedLanguageResult ==
    (sb.pc # "idle" /\ sb.language \notin SupportedLanguages)
    => ( /\ sb.pc = "returned" /\ sb.spawned = 0 /\ disk = {}
         /\ sb.result = Result("", "Unsupported language", <<>>) )

\* C20 amended: called with a language outside javascript, python, golang
\* and html, executeCode returns at once with an error result, writes no temp
\* file and spawns no process; the result is 'Unsupported language' when
\* validateCode accepts the code and the 'Security Error' result when it
\* rejects it.
C20_UnsupportedLanguageNoRuntime ==
    (sb.pc # "idle" /\ sb.language \notin SupportedLanguages)
    => ( /\ sb.pc = "returned" /\ sb.spawned = 0 /\ disk = {}
         /\ sb.result.output = ""
         /\ sb.validation.valid => sb.result = Result("", "Unsupported language", <<>>)
         /\ ~sb.validation.valid =>
                sb.result = Result("", "Security Error: " \o sb.validation.error,
                                   sb.validation.detail) )

\* C20 witness: a valid code in language ruby got the 'Unsupported language'
\* result, and no file or process exists.
C20_Witness ==
    /\ sb.pc = "returned" /\ sb.language = "ruby" /\ sb.validation.valid
    /\ sb.result = Result("", "Unsupported language", <<>>)
    /\ sb.spawned = 0 /\ disk = {}

----------------------------------------------------------------------------
(* Role restrictions.                                                      *)

\* The roles a message's author holds in the guild.
RolesOf(author) == IF author = "u2" THEN {"mod"} ELSE {}

RoleRestrictionOf(command) ==
    IF "roleRestriction" \in DOMAIN command THEN command.roleRestriction ELSE <<>>

\* The author holds none of the roles of a non-empty restriction list.
LacksRoles(author, command) ==
    /\ RoleRestrictionOf(command) # <<>>
    /\ RolesOf(author) \cap SeqRange(RoleRestrictionOf(command)) = {}

\* C13: a command with a non-empty role restriction list is never executed
\* for a message whose author holds none of the listed roles, in the
\* part_006 handler and in handleMessage of commands.js.
C13_RestrictedNeverFires ==
    /\ \A i \in LogIdx :
          (log[i].k > 0 /\ LacksRoles(log[i].author, redisCommands[log[i].k]))
          => log[i].execs = <<>>
    /\ \A i \in CmLogIdx, j \in 1..Len(redisCommands) :
          ( /\ redisCommands[j].json = "ok" /\ redisCommands[j].id = cmLog[i].cmd
            /\ LacksRoles(cmLog[i].author, redisCommands[j]) )
          => cmLog[i].execs = 0

----------------------------------------------------------------------------
(* Which command fires (part_006).                                         *)

\* The entries of the registry that parse and textually match run i's message.
MatchSet(i) ==
    { j \in 1..Len(redisCommands) :
        /\ redisCommands[j].json = "ok"
        /\ Matches(redisCommands[j], log[i].content, log[i].prefix) }

\* C14: the command the handler settles on is the first one in iteration
\* order that textually matches; only that command is ever executed for the
\* message, and none at all when it is rate-limited or nothing matches.
C14_FirstMatchFires ==
    \A i \in LogIdx :
        /\ MatchSet(i) = {} => (log[i].k = 0 /\ log[i].execs = <<>>)
        /\ MatchSet(i) # {} =>
              /\ log[i].k \in MatchSet(i)
              /\ \A j \in MatchSet(i) : log[i].k <= j
              /\ log[i].cmd = redisCommands[log[i].k].id
              /\ \A e \in 1..Len(log[i].execs) :
                    log[i].execs[e] = redisCommands[log[i].k].id
              /\ ~log[i].passed => log[i].execs = <<>>

\* C14 witness: two commands match the message, the first is rate-limited
\* and nothing was executed.
C14_Witness ==
    \E i \in LogIdx :
        /\ Cardinality(MatchSet(i)) >= 2
        /\ log[i].k > 0 /\ ~log[i].passed /\ log[i].execs = <<>>
        /\ \E j \in LogIdx : /\ j # i /\ Cardinality(MatchSet(j)) >= 2
                              /\ log[j].execs = <<redisCommands[log[j].k].id>>

----------------------------------------------------------------------------
(* The textual match (part_006).                                           *)

\* a is the beginning of b
BeginsWith(b, a) == Len(a) <= Len(b) /\ \A n \in 1..Len(a) : b[n] = a[n]

\* The match as the three trigger types define it.
TextualMatch(command, content, prefix) ==
    \/ /\ command.type = "Command (prefix)"
       /\ BeginsWith(content, prefix \o command.trigger)
    \/ /\ command.type = "Exact Match"
       /\ content = command.trigger
    \/ /\ command.type = "Starts with"
       /\ BeginsWith(content, command.trigger)

\* C15: the loop stops at a command exactly when it matches by its type
\* (prefix + trigger at the start, equality, or trigger at the start): every
\* parsed entry it passed over does not match, the entry it stopped at does,
\* and a command of any other type is never the one it stops at.
C15_MatchByType ==
    \A i \in LogIdx :
        LET last == IF log[i].k = 0 THEN Len(redisCommands) ELSE log[i].k - 1
        IN  /\ \A j \in 1..last :
                  redisCommands[j].json = "ok" =>
                      ~TextualMatch(redisCommands[j], log[i].content, log[i].prefix)
            /\ log[i].k > 0 =>
                  /\ TextualMatch(redisCommands[log[i].k], log[i].content, log[i].prefix)
                  /\ redisCommands[log[i].k].type \in
                        {"Command (prefix)", "Exact Match", "Starts with"}

\* C15 witness: an 'Exact Match' command with trigger 'help' was passed over
\* for the message 'help me', for which the 'Starts with' command after it
\* matched, and was the match for the message 'help'.
C15_Witness ==
    /\ Len(redisCommands) >= 2
    /\ redisCommands[1].json = "ok" /\ redisCommands[1].type = "Exact Match"
    /\ redisCommands[1].trigger = S_help
    /\ \E i \in LogIdx : log[i].content = S_help_me /\ log[i].k = 2
    /\ \E i \in LogIdx : log[i].content = S_help /\ log[i].k = 1

----------------------------------------------------------------------------
(* Case normalization (index.js lines 1569-1602).                          *)

\* b starts with a, up to the case of letters
BeginsWithAnyCase(b, a) ==
    Len(a) <= Len(b) /\ \A n \in 1..Len(a) : SameLetter(b[n], a[n])

\* C16: a 'Command (prefix)' JavaScript command reached by the loop is run
\* for every message that starts with prefix + trigger up to letter case,
\* whatever the letter case of the guild prefix.
C16_PrefixCaseInsensitive ==
    lw.pc = "done" /\ lw.prefix # <<>> =>
        \A j \in 1..Len(lw.cmds) :
            ( /\ \A m \in 1..j : lw.cmds[m].json = "ok"
              /\ lw.cmds[j].type = "Command (prefix)"
              /\ lw.cmds[j].lang = "JavaScript"
              /\ BeginsWithAnyCase(lw.content, lw.prefix \o lw.cmds[j].trigger) )
            => \E e \in 1..Len(lw.execs) : lw.execs[e] = lw.cmds[j].id

----------------------------------------------------------------------------
(* Scratch files of concurrent executions (part_001).                      *)

\* C17: an invocation for py or go runs exactly the code it was given and
\* returns the output (or the error output) of that code, whatever the other
\* invocation does in between.
C17_RunsOwnCode ==
    \A h \in Handlers :
        ex[h].lang \in {"py", "go"} =>
            /\ ex[h].pc \in {"running", "returned"} => ex[h].ran = ex[h].code
            /\ ex[h].pc = "returned" =>
                  ex[h].result \in {"out:" \o ex[h].code, "err:" \o ex[h].code}

----------------------------------------------------------------------------
(* The log (bot.js).                                                       *)

\* C18: every execution runCommand has finished pushed exactly one entry to
\* the log, whether the script succeeded or threw.
C18_OneEntryPerExecution ==
    \A e \in 1..Len(bt.runs) : bt.runs[e].pushed = 1

\* The last n entries of a sequence.
LastOf(q, n) == IF Len(q) <= n THEN q ELSE SubSeq(q, Len(q) - n + 1, Len(q))

\* C19: liveLogs never holds more than 50 entries, and it holds exactly the
\* entries pushed last, unchanged and in push order.
C19_LastFiftyInOrder ==
    /\ Len(liveLogs) <= 50
    /\ liveLogs = LastOf(history, 50)

\* C19 witness: more than 50 entries have been pushed, by executions that
\* succeeded and by one that threw, and the oldest ones are gone.
C19_Witness ==
    /\ Len(history) > 51
    /\ Len(liveLogs) = 50
    /\ \E k \in 1..50 : liveLogs[k].message = "Error" /\ liveLogs[k].seq > 50
    /\ liveLogs[1].seq = Len(history) - 49

----------------------------------------------------------------------------
(* What a security rejection tells (sandbox.js).                           *)

\* What executeCode returns for a code validateCode rejected with v.
RejectionResult(v) == Result("", "Security Error: " \o v.error, v.detail)

\* The rejection of a code that holds the first denylist entry.
ReferenceRejection ==
    RejectionResult(validateCode("javascript", [body |-> DANGEROUS_PATTERNS[1], pad |-> 0]))

\* C21: the result returned for a code rejected because of a denylisted
\* pattern or module is the same whichever entry matched: it equals the
\* result returned for a code that holds the first entry of the denylist.
C21_RejectionIsGeneric ==
    ( /\ sb.pc = "returned" /\ ~sb.validation.valid
      /\ sb.validation.error # "Code too large (max 10KB)" )
    => sb.result = ReferenceRejection

----------------------------------------------------------------------------
(* Registry failures (part_006).                                           *)

\* Handler h returns in this step without having reached the loop: the read
\* of the prefix or of the commands failed.
RegistryReadFailed(h) ==
    /\ pc[h] \in {"awaitPrefix", "awaitCommands"}
    /\ pc'[h] = "idle"
    /\ log' = log

\* Every run whose first matching entry comes after an entry that does not
\* parse has settled on that matching entry.
BadEntriesSkipped ==
    \A i \in LogIdx : \A j \in MatchSet(i) :
        ( /\ \A m \in MatchSet(i) : j <= m
          /\ \E b \in 1..(j - 1) : redisCommands[b].json # "ok" )
        => log[i].k = j

\* C22: a handler whose registry read fails returns without executing or
\* replying and leaves the rate-limit state as it was; an entry that does
\* not parse is skipped and the scan goes on with the entries after it.
C22_RegistryFailureContained ==
    [][ /\ \A h \in Handlers :
              RegistryReadFailed(h) => (rateLimit' = rateLimit /\ msg'[h] = Idle)
        /\ BadEntriesSkipped' ]_vars

\* C22 witness: the loop settled on the entry after one that does not parse,
\* and an event has ended without a run of the loop.
C22_Witness ==
    /\ \E i \in LogIdx : log[i].k = 2 /\ redisCommands[1].json # "ok"
    /\ \A h \in Handlers : pc[h] \in {"idle", "off"}
    /\ received > Len(log)

----------------------------------------------------------------------------
(* Tenant isolation of the db binding (bot.js).                            *)

\* C23: a db call made by a script of one guild leaves what db.get and
\* db.all return to the scripts of every other guild as it was, and what it
\* reads comes from its own guild's hash.
C23_DbIsPerGuild ==
    [][ /\ \A g \in Guilds :
              g # dbLast'.guild =>
                  /\ \A k \in DbKeys : DbGet(userdata', g, k) = DbGet(userdata, g, k)
                  /\ DbAll(userdata', g) = DbAll(userdata, g)
        /\ dbLast'.op = "get" =>
              dbLast'.result = DbGet(userdata, dbLast'.guild, dbLast'.key)
      ]_vars

\* C23 witness: a script of g1 has just overwritten a key that both guilds
\* hold, and g2 still holds its own value under that key.
C23_Witness ==
    /\ dbLast.guild = "g1" /\ dbLast.op = "set" /\ dbLast.key = "k1"
    /\ DbGet(userdata, "g1", "k1") = <<1>>
    /\ DbGet(userdata, "g2", "k1") = <<2>>

----------------------------------------------------------------------------
(* The handlers whose loop has no break.                                   *)

\* The ids of the entries of q, in order.
IdsOf(q) == [n \in 1..Len(q) |-> q[n].id]

\* The registered commands that match the message of the index.js handler.
LowMatching ==
    LET Hit(c) == c.json = "ok" /\ LowMatches(c, toLowerCase(lw.content), lw.prefix)
    IN  SelectSeq(lw.cmds, Hit)

\* The registered commands that match the message of the bot.js handler.
BotMatching ==
    LET Hit(c) == c.json = "ok" /\ StartsWith(bt.content, S_bang \o c.trigger)
    IN  SelectSeq(bt.cmds, Hit)

\* C24: when a handler without break has finished its loop, the commands it
\* executed are exactly the registered commands whose trigger matches the
\* message, each once, in registry order.
C24_AllMatchesFire ==
    /\ (lw.pc = "done" /\ lw.prefix # <<>>) => lw.execs = IdsOf(LowMatching)
    /\ (bt.pc = "done" /\ bt.i > 0) => [n \in 1..Len(bt.runs) |-> bt.runs[n].cmd] = IdsOf(BotMatching)


C26_AtMostHundredCommands == Cardinality(stored) <= MaxCommands


\* C27: a validateSession call that starts after POST /api/logout has
\* completed for its session id never returns a session, whatever other
\* validations of the same id were in flight during the logout.
C27_NoSessionAfterLogout ==
    \A v \in Validators :
        (ses[v].pc = "done" /\ ses[v].afterLogout) => ses[v].result = None

\* C28: a session returned by validateSession was validated less than 24
\* hours after createSession made it (its new lastActivity is below
\* createdAt + 24 h), whatever TTL refreshes came before; and the id it was
\* returned for carries the HMAC prefix of its uuid part as signature.
C28_NoSessionPastExpiry ==
    \A v \in Validators :
        (ses[v].pc = "done" /\ ses[v].result # None) =>
            /\ ses[v].result.lastActivity < ses[v].result.createdAt + DayTicks
            /\ Len(ses[v].id) >= 2
            /\ ses[v].id[2] = Hmac(ses[v].id[1])

\* a validation finds the session in Redis past its 24 hours (earlier
\* validations refreshed the TTL) and refuses it, while another validation
\* has refused an id with a wrong signature
C28_Witness ==
    \E v, w \in Validators :
        /\ ses[v].pc = "del" /\ ses[v].id = GoodId
        /\ sessions[GoodId] \notin {None, Gone}
        /\ sessions[GoodId].data.lastActivity > sessions[GoodId].data.createdAt
        /\ clock >= sessions[GoodId].data.createdAt + DayTicks
        /\ ses[w].pc = "done" /\ ses[w].id = <<"u1", "h0">> /\ ses[w].result = None


\* C29: once disableGlobally has been called isEnabled() is false (it
\* returns globalEnabled), whatever loadGlobalState calls are in flight; and
\* with no call in flight isEnabled() is false exactly when global:enabled
\* holds 'false'.
C29_DisableIsFinal ==
    /\ ksDisabled => ~globalEnabled
    /\ ksQueue = <<>> => (~globalEnabled <=> ksKey = "false")


\* C30: with no getPrefix call and no settings save in flight, a guild's
\* cached prefix is the prefix Redis holds for it ('!' when it holds
\* none), and a guild whose settings save has completed has the saved
\* prefix cached, which is what getPrefix returns for it.
C30_CacheMatchesRedis ==
    pfxQueue = <<>> =>
        \A g \in Guilds :
            /\ prefixCache[g] # NoPrefix => prefixCache[g] = StoredPrefix(g)
            /\ pfxSaved[g] # NoPrefix => prefixCache[g] = pfxSaved[g]

\* every call has ended, a settings save for a guild has completed, Redis
\* holds its prefix, and the last getPrefix for the guild returned it
C30_Witness ==
    /\ pfxQueue = <<>>
    /\ \E g \in Guilds :
          /\ pfxSaved[g] = "?"
          /\ pfxRedis[g] = "?"
          /\ pfxReturned = [guild |-> g, prefix |-> "?"]

====
